---- MODULE Spec2Model ----
(***************************************************************************)
(* A model of elephant's container and file helpers:                       *)
(*   general_tools.filter_strings, general_tools.iter_flattened,           *)
(*   neo_tools.get_all_objs / get_all_spiketrains, extract_neo_attrs and   *)
(*   set_all_attrs, neo_file_tools.neo_files_to_dict and                   *)
(*   neo_objects_to_hdf5, file_tools.filter_by_extensions and              *)
(*   yield_files_paths.                                                    *)
(* Each function has its specification; the variables of the others stay   *)
(* idle in it.                                                             *)
(*                                                                         *)
(* Python values are tagged records.  A string is its sequence of          *)
(* characters, a dict its key sequence and value sequence in iteration     *)
(* order, a numpy array its dimensionality and its sequence of entries     *)
(* (each of dimensionality one less), a neo object a reference (id) into   *)
(* the object heap.                                                        *)
(***************************************************************************)
EXTENDS Integers, Sequences, FiniteSets, TLC

VARIABLES
    pc,            \* "start" before the call, "returned" / "raised" after it,
                   \* or the statement a call gone through step by step is at
    objs,          \* iter_flattened: the structure to flatten
    flat_ndarray,  \* iter_flattened: the flag
    flattened,     \* list(iter_flattened(objs, flat_ndarray))
    targs,         \* filter_strings: the list filtered in place
    targs0,        \* the content of targs before the first call
    calls,         \* filter_strings: the calls made on targs, in order, each
                   \* with its predicate, the content of targs after it and
                   \* the value returned
    heap,          \* get_all_objs: the neo objects, by identity
    container,     \* get_all_objs: the container
    classname,     \* get_all_objs: the class name, or None
    result,        \* get_all_objs: the returned list, or the raised error
    neo,           \* extract_neo_attrs: the neo objects, by identity
    neo0,          \* the neo objects before the call
    owner,         \* the object whose annotations the returned dict is, or 0
    xargs,         \* extract_neo_attrs: the object and the four flags
    attrs,         \* extract_neo_attrs: the returned dict
    store0,        \* set_all_attrs: the attributes of each object before
    store,         \* set_all_attrs: the attributes of each object
    sargs,         \* set_all_attrs: attr, value and create
    origins,       \* neo_files_to_dict: file_origin of each object read
    objdict,       \* neo_files_to_dict: the dict built
    curdict,       \* neo_files_to_dict: where curdict is in objdict
    idx,           \* neo_files_to_dict: the object the loop is at
    dmodule,       \* neo_files_to_dict: the module whose function is called
    dexc,          \* neo_files_to_dict: the exception raised, or None
    tree,          \* yield_files_paths: what os.walk finds under targdir
    wargs,         \* yield_files_paths: the arguments
    yielded,       \* list(yield_files_paths(...))
    filenames,     \* filter_by_extensions: the list filtered in place
    filenames0,    \* the content of filenames before the call
    extensions,    \* filter_by_extensions: the extensions argument
    frames,        \* iter_flattened: the generators running, outermost first
    neoobjs,       \* neo_objects_to_hdf5: the objects iter_flattened gives
    hargs,         \* neo_objects_to_hdf5: flat and with_current, and the
                   \* module whose function is called
    ioobj,         \* neo_objects_to_hdf5: the NeoHdf5IO object
    hidx,          \* neo_objects_to_hdf5: the object the loop is at
    hexc           \* neo_objects_to_hdf5: the exception caught, or None

flattenVars == <<objs, flat_ndarray, flattened>>
filterVars == <<targs, targs0, calls>>
collectVars == <<heap, container, classname, result>>
extractVars == <<neo, neo0, owner, xargs, attrs>>
setVars == <<store0, store, sargs>>
dictVars == <<origins, objdict, curdict, idx, dmodule, dexc>>
walkVars == <<tree, wargs, yielded>>
extVars == <<filenames, filenames0, extensions>>
traverseVars == <<frames>>
hdfVars == <<neoobjs, hargs, ioobj, hidx, hexc>>

vars == <<pc, flattenVars, filterVars, collectVars, extractVars, setVars,
          dictVars, walkVars, extVars, traverseVars, hdfVars>>

-----------------------------------------------------------------------------
(* Bounds of the model *)

\* nodes (leaves and containers) of a nested structure given to iter_flattened
MaxNodes == 4
\* nodes of a container given to get_all_objs
MaxContainerNodes == 3
\* items of the list given to filter_strings
MaxTargs == 3
\* predicates of a list predicate
MaxFilters == 2
\* successive calls of filter_strings on the same list
MaxCalls == 2

-----------------------------------------------------------------------------
(* Python values *)

PyNone == [tag |-> "None"]
PyInt(n) == [tag |-> "int", v |-> n]
PyStr(cs) == [tag |-> "str", chars |-> cs]
PyList(xs) == [tag |-> "list", items |-> xs]
PyDict(ks, vs) == [tag |-> "dict", keys |-> ks, vals |-> vs]
DictValues(xs) == [tag |-> "dict_values", items |-> xs]
NpScalar(n) == [tag |-> "npscalar", v |-> n]
NdArray(d, xs) == [tag |-> "ndarray", ndim |-> d, items |-> xs]
NeoRef(i) == [tag |-> "neo", id |-> i]
\* a compiled pattern: atoms (a character, or "." for any character), with
\* "^" in front (bol) and "$" behind (eol) or not
Regex(b, atoms, e) == [tag |-> "regex", bol |-> b, atoms |-> atoms, eol |-> e]

\* sequence helpers
Range(s) == {s[i] : i \in DOMAIN s}
Count(x, s) == Cardinality({i \in DOMAIN s : s[i] = x})

\* hasattr(o, 'values'): dicts (numpy arrays and neo objects have none)
HasValues(o) == o.tag = "dict"

\* a variant that finds no ndim on anything
HasNdim_never(o) == FALSE

\* hasattr(o, 'ndim'): numpy arrays of any dimensionality and numpy scalars
HasNdim(o) == o.tag \in {"ndarray", "npscalar"}

\* getattr(o, 'ndim', False)
GetNdim(o) ==
    IF o.tag = "ndarray" THEN o.ndim
    ELSE IF o.tag = "npscalar" THEN 0
    ELSE 0

\* hasattr(o, '__iter__') (Python 3: strings have it too)
HasIter(o) == o.tag \in {"list", "dict", "dict_values", "str", "ndarray"}

\* a variant that takes only strings of at most one character for strings
HasLower_onechar(o) == o.tag = "str" /\ Len(o.chars) <= 1

\* hasattr(o, 'lower'): strings
HasLower(o) == o.tag = "str"

\* a variant that iterates the dict itself: its keys
Values_keys(o) == DictValues(o.keys)

\* o.values() of a dict: a view of its values in iteration order
Values(o) == DictValues(o.vals)

\* the elements `for obj in o` visits
Iterate(o) ==
    IF o.tag \in {"list", "dict_values", "ndarray"} THEN o.items
    ELSE IF o.tag = "dict" THEN o.keys
    ELSE IF o.tag = "str" THEN [i \in 1..Len(o.chars) |-> PyStr(<<o.chars[i]>>)]
    ELSE <<>>

-----------------------------------------------------------------------------
(* general_tools.iter_flattened *)

RECURSIVE IterFlattened(_, _)
RECURSIVE IterFlattenedEach(_, _)

\* a variant that yields the elements' leaves last element first
IterFlattenedEach_reversed(xs, flat) ==
    IF xs = <<>> THEN <<>>
    ELSE IterFlattenedEach(Tail(xs), flat) \o IterFlattened(Head(xs), flat)

\* the nested loop `for obj in objs: for iobj in iter_flattened(obj): yield iobj`
IterFlattenedEach(xs, flat) ==
    IF xs = <<>> THEN <<>>
    ELSE IterFlattened(Head(xs), flat) \o IterFlattenedEach(Tail(xs), flat)

IterFlattened(o, flat) ==
    IF HasValues(o) /\ ~HasNdim(o)
    THEN IterFlattened(Values(o), flat)
    ELSE IF HasIter(o) /\ ~HasLower(o) /\ ~HasNdim(o)
    THEN IterFlattenedEach(Iterate(o), flat)
    ELSE IF flat /\ GetNdim(o) # 0
    THEN IterFlattenedEach(Iterate(o), flat)
    ELSE <<o>>

-----------------------------------------------------------------------------
(* general_tools.filter_strings *)

\* `not filters`: None, the empty string and the empty list are false
Falsy(f) ==
    \/ f.tag = "None"
    \/ (f.tag = "str" /\ f.chars = <<>>)
    \/ (f.tag = "list" /\ f.items = <<>>)

\* hasattr(f, 'search'): compiled patterns
HasSearch(f) == f.tag = "regex"

\* `filters in name` for two strings: filters is a substring of name
Contains(name, lit) ==
    \E i \in 0..(Len(name.chars) - Len(lit.chars)) :
        SubSeq(name.chars, i + 1, i + Len(lit.chars)) = lit.chars

\* the pattern matches the name from position i on
MatchesAt(rx, name, i) ==
    /\ rx.bol => i = 1
    /\ i + Len(rx.atoms) - 1 <= Len(name.chars)
    /\ \A j \in 1..Len(rx.atoms) :
           rx.atoms[j] = "." \/ rx.atoms[j] = name.chars[i + j - 1]
    /\ rx.eol => i + Len(rx.atoms) - 1 = Len(name.chars)

\* `filters.search(name) is not None`: the pattern matches somewhere in name
Search(rx, name) == \E i \in 1..(Len(name.chars) + 1) : MatchesAt(rx, name, i)

\* targs.remove(name): targs without the first item equal to name
Remove(s, name) ==
    LET i == CHOOSE k \in DOMAIN s : s[k] = name /\ \A m \in 1..(k - 1) : s[m] # name
    IN SubSeq(s, 1, i - 1) \o SubSeq(s, i + 1, Len(s))

\* whether the loop body keeps the name: the test of line 40 for a string
\* predicate, of line 46 for a pattern
Keeps(f, name) == IF HasLower(f) THEN Contains(name, f) ELSE Search(f, name)

RECURSIVE RemoveLoop_live(_, _, _)
\* a variant that walks targs itself while removing from it: after a removal
\* the next item is skipped
RemoveLoop_live(i, cur, f) ==
    IF i > Len(cur) THEN cur
    ELSE IF ~Keeps(f, cur[i]) THEN RemoveLoop_live(i + 1, Remove(cur, cur[i]), f)
    ELSE RemoveLoop_live(i + 1, cur, f)

RemoveLoop_skipping(copy, cur, f) == RemoveLoop_live(1, cur, f)

\* a variant of the loop that stops after its first removal
RemoveLoop_once(copy, cur, f) ==
    IF \E i \in DOMAIN cur : ~Keeps(f, cur[i])
    THEN Remove(cur, cur[CHOOSE i \in DOMAIN cur : ~Keeps(f, cur[i])])
    ELSE cur

RECURSIVE RemoveLoop(_, _, _)
\* `for name in targs[:]: if <name fails f>: targs.remove(name)`: copy is
\* what is left of the copy walked, cur the content of targs
RemoveLoop(copy, cur, f) ==
    IF copy = <<>> THEN cur
    ELSE IF ~Keeps(f, Head(copy))
    THEN RemoveLoop(Tail(copy), Remove(cur, Head(copy)), f)
    ELSE RemoveLoop(Tail(copy), cur, f)

RECURSIVE FilterStrings(_, _)
RECURSIVE FilterStringsBody(_, _)
RECURSIVE FilterStringsEach(_, _)

\* a variant of the loop over a list predicate that stops after its first member
FilterStringsEach_first(t, fs) ==
    IF fs = <<>> THEN t ELSE FilterStrings(t, Head(fs))

\* `for filt in filters: filter_strings(targs, filt)`
FilterStringsEach(t, fs) ==
    IF fs = <<>> THEN t
    ELSE FilterStringsEach(FilterStrings(t, Head(fs)), Tail(fs))

\* the body of filter_strings: the content of targs after the call, targs
\* holding t before
FilterStringsBody(t, f) ==
    IF Falsy(f) THEN t
    ELSE IF HasLower(f) THEN RemoveLoop(t, t, f)
    ELSE IF HasSearch(f) THEN RemoveLoop(t, t, f)
    ELSE FilterStringsEach(t, Iterate(f))

\* a variant that empties targs when the predicate is empty or absent
FilterStrings_emptyclears(t, f) ==
    IF Falsy(f) THEN <<>> ELSE FilterStringsBody(t, f)

\* the content of targs after filter_strings(targs, f), targs holding t before
FilterStrings(t, f) == FilterStringsBody(t, f)

-----------------------------------------------------------------------------
(* neo_tools.get_all_objs *)

\* str.lower() on the letters the class names use
LowerChar(c) ==
    CASE c = "A" -> "a" [] c = "S" -> "s" [] c = "T" -> "t" [] OTHER -> c

Lower(str) == PyStr([i \in DOMAIN str.chars |-> LowerChar(str.chars[i])])

\* classname.lower() + 's': the name of the attribute holding the children
ClassHolder(cn) == PyStr(Lower(cn).chars \o <<"s">>)

\* hasattr(o, 'file_origin'): the neo objects
HasFileOrigin(o) == o.tag = "neo"

\* type(o), as the TypeError names it
TypeOf(h, o) == IF o.tag = "neo" THEN h[o.id].cls ELSE PyStr(<<o.tag>>)

\* the outcomes of a call
Returned(ids) == [raised |-> FALSE, objs |-> ids, type |-> PyNone]
TypeError(t) == [raised |-> TRUE, objs |-> <<>>, type |-> t]

RECURSIVE UniqueObjs(_)
\* neo.core.container.unique_objs: the objects of the list that are distinct
\* under `is`, each at its first occurrence
UniqueObjs(ids) ==
    IF ids = <<>> THEN <<>>
    ELSE LET front == UniqueObjs(SubSeq(ids, 1, Len(ids) - 1))
             last == ids[Len(ids)]
         IN IF last \in Range(front) THEN front ELSE Append(front, last)

\* container.children_recur of a neo object that has it: its children and
\* their descendants
ChildrenRecur(h, o) == h[o.id].kids \o h[o.id].deep

\* container.list_children_by_class(classname) of a neo object that has it:
\* the children and descendants held under the attribute named for the class
ListChildrenByClass(h, o, cn) ==
    LET OfClass(i) == ClassHolder(h[i].cls) = ClassHolder(cn)
    IN SelectSeq(h[o.id].kids \o h[o.id].deep, OfClass)

\* hasattr(container, classholder)
HasAttr(h, o, attr) == attr \in DOMAIN h[o.id].flat

\* a variant that returns the collected list as it is
ReturnUnique_asis(vals) == Returned(vals)

\* a variant that keeps each object at its last occurrence
ReturnUnique_lastkept(vals) ==
    LET Rev(x) == [i \in DOMAIN x |-> x[Len(x) + 1 - i]]
    IN Returned(Rev(UniqueObjs(Rev(vals))))

\* `return unique_objs(vals)`
ReturnUnique(vals) == Returned(UniqueObjs(vals))

\* a variant that leaves the object itself out
WithChildrenRecur_childrenonly(h, c) == ChildrenRecur(h, c)

\* `vals = [container]; vals.extend(container.children_recur)`
WithChildrenRecur(h, c) == <<c.id>> \o ChildrenRecur(h, c)

\* a variant that takes the elements of a list and the values of a dict
Vals_onelevel(c) ==
    IF c.tag = "dict" THEN c.vals ELSE IF c.tag = "list" THEN c.items ELSE <<c>>

\* `vals = list(iter_flattened(container))`
Vals(c) == IterFlattened(c, FALSE)

RECURSIVE GetAllObjs(_, _, _)
RECURSIVE GetAllObjsEach(_, _, _)

\* chain.from_iterable(get_all_objs(obj, classname) for obj in vals): the
\* results one after the other, or the first error raised
GetAllObjsEach(h, vals, cn) ==
    IF vals = <<>> THEN Returned(<<>>)
    ELSE LET first == GetAllObjs(h, Head(vals), cn)
         IN IF first.raised THEN first
            ELSE LET rest == GetAllObjsEach(h, Tail(vals), cn)
                 IN IF rest.raised THEN rest
                    ELSE Returned(first.objs \o rest.objs)

\* the body of get_all_objs(container, classname): the list returned or the
\* error raised
GetAllObjsBody(h, c, cn) ==
    IF ~HasFileOrigin(c)
    THEN LET vals == Vals(c)
         IN IF Len(vals) = 1 /\ vals[1] = c
            THEN TypeError(TypeOf(h, c))
            ELSE LET each == GetAllObjsEach(h, vals, cn)
                 IN IF each.raised THEN each ELSE ReturnUnique(each.objs)
    ELSE IF cn = PyNone
    THEN IF h[c.id].has_recur
         THEN ReturnUnique(WithChildrenRecur(h, c))
         ELSE Returned(<<c.id>>)
    ELSE IF h[c.id].cls = cn
    THEN Returned(<<c.id>>)
    ELSE IF HasAttr(h, c, ClassHolder(cn))
    THEN ReturnUnique(h[c.id].flat[ClassHolder(cn)])
    ELSE IF h[c.id].has_list
    THEN ReturnUnique(ListChildrenByClass(h, c, cn))
    ELSE TypeError(TypeOf(h, c))

\* a variant that returns an empty list for an object it cannot decompose
GetAllObjs_nocheck(h, c, cn) ==
    IF ~HasFileOrigin(c) /\ IterFlattened(c, FALSE) = <<c>>
    THEN Returned(<<>>)
    ELSE GetAllObjsBody(h, c, cn)

\* a variant that collects all objects whatever the class name
GetAllObjs_anyclass(h, c, cn) == GetAllObjsBody(h, c, PyNone)

\* a variant that does not go into a neo object
GetAllObjs_toponly(h, c, cn) ==
    IF HasFileOrigin(c) THEN Returned(<<c.id>>) ELSE GetAllObjsBody(h, c, cn)

\* a variant that asks list_children_by_class before the attribute
GetAllObjs_listfirst(h, c, cn) ==
    IF HasFileOrigin(c) /\ cn # PyNone /\ h[c.id].cls # cn /\ h[c.id].has_list
    THEN ReturnUnique(ListChildrenByClass(h, c, cn))
    ELSE GetAllObjsBody(h, c, cn)

\* a variant that adds the recursive listing to an object of the class
GetAllObjs_withchildren(h, c, cn) ==
    IF HasFileOrigin(c) /\ cn # PyNone /\ h[c.id].cls = cn
    THEN ReturnUnique(WithChildrenRecur(h, c))
    ELSE GetAllObjsBody(h, c, cn)

\* get_all_objs(container, classname)
GetAllObjs(h, c, cn) == GetAllObjsBody(h, c, cn)

\* get_all_spiketrains(container)
SpikeTrain == PyStr(<<"S", "p", "i", "k", "e", "T", "r", "a", "i", "n">>)
GetAllSpiketrains(h, c) == GetAllObjs(h, c, SpikeTrain)

-----------------------------------------------------------------------------
(* The nested structures the calls are made on *)

\* keys of the dicts: one that is also a leaf value ("a"), one that is not
DictKeys == {PyStr(<<"a">>), PyStr(<<"k">>)}

\* key sequences of a dict of m entries: the keys of a dict are distinct
KeySeqs(m) ==
    {ks \in [1..m -> DictKeys] : \A i, j \in 1..m : ks[i] = ks[j] => i = j}

RECURSIVE ObjsOfSize(_, _)
RECURSIVE TuplesOfSize(_, _)

\* the element sequences whose structures have n nodes in all, over leaves L
TuplesOfSize(n, L) ==
    IF n = 0 THEN {<<>>}
    ELSE UNION {{<<x>> \o t : x \in ObjsOfSize(k, L), t \in TuplesOfSize(n - k, L)}
                : k \in 1..n}

\* the structures of exactly n nodes: a leaf, a list, or a dict
ObjsOfSize(n, L) ==
    IF n = 0 THEN {}
    ELSE (IF n = 1 THEN L ELSE {})
         \cup {PyList(t) : t \in TuplesOfSize(n - 1, L)}
         \cup UNION {{PyDict(ks, t) : ks \in KeySeqs(Len(t))}
                     : t \in TuplesOfSize(n - 1, L)}

Structures(n, L) == UNION {ObjsOfSize(k, L) : k \in 1..n}

\* the leaves of the structures given to iter_flattened: scalars, strings of
\* length 0, 1 and 2, and arrays of dimensionality 0 (np.array(5)) and
\* 2 (np.array([[1, 2], [3, 4]]), whose rows are arrays of dimensionality 1)
Array0 == NdArray(0, <<NpScalar(5)>>)
Array2 ==
    NdArray(2, <<NdArray(1, <<NpScalar(1), NpScalar(2)>>),
                 NdArray(1, <<NpScalar(3), NpScalar(4)>>)>>)
FlatLeaves ==
    {PyInt(0), PyStr(<<>>), PyStr(<<"a">>), PyStr(<<"a", "b">>), Array0, Array2}

FlatInputs == Structures(MaxNodes, FlatLeaves)

-----------------------------------------------------------------------------
(* The variables of the functions a specification does not call *)

IdleFlatten == objs = PyNone /\ flat_ndarray = FALSE /\ flattened = <<>>
IdleFilter == targs = <<>> /\ targs0 = <<>> /\ calls = <<>>
IdleCollect ==
    heap = <<>> /\ container = PyNone /\ classname = PyNone /\ result = <<>>
IdleExtract ==
    neo = <<>> /\ neo0 = <<>> /\ owner = 0 /\ xargs = PyNone /\ attrs = <<>>
IdleSet == store0 = <<>> /\ store = <<>> /\ sargs = PyNone
IdleDict ==
    /\ origins = <<>> /\ objdict = <<>> /\ curdict = <<>> /\ idx = 0
    /\ dmodule = PyNone /\ dexc = PyNone
IdleWalk == tree = <<>> /\ wargs = PyNone /\ yielded = <<>>
IdleExt == filenames = <<>> /\ filenames0 = <<>> /\ extensions = PyNone
IdleTraverse == frames = <<>>
IdleHdf ==
    /\ neoobjs = <<>> /\ hargs = PyNone /\ ioobj = PyNone /\ hidx = 0
    /\ hexc = PyNone

-----------------------------------------------------------------------------
(* Specification of list(iter_flattened(objs, flat_ndarray)) *)

InitFlatten ==
    /\ pc = "start"
    /\ objs \in FlatInputs
    /\ flat_ndarray \in BOOLEAN
    /\ flattened = <<>>
    /\ targs = <<>> /\ targs0 = <<>> /\ calls = <<>>
    /\ heap = <<>> /\ container = PyNone /\ classname = PyNone
    /\ result = <<>>
    /\ IdleExtract /\ IdleSet /\ IdleDict /\ IdleWalk /\ IdleExt
    /\ IdleTraverse /\ IdleHdf

CallIterFlattened ==
    /\ pc = "start"
    /\ flattened' = IterFlattened(objs, flat_ndarray)
    /\ pc' = "returned"
    /\ UNCHANGED <<objs, flat_ndarray, targs, targs0, calls,
                   heap, container, classname, result>>
    /\ UNCHANGED <<extractVars, setVars, dictVars, walkVars, extVars>>
    /\ UNCHANGED <<traverseVars, hdfVars>>

NextFlatten == CallIterFlattened

SpecFlatten == InitFlatten /\ [][NextFlatten]_vars

-----------------------------------------------------------------------------
(* What the flattening is meant to yield, stated on the structure *)

RECURSIVE LeavesOf(_, _)
RECURSIVE LeavesOfEach(_, _)
RECURSIVE EntriesOf(_)
RECURSIVE EntriesOfEach(_)

\* the scalar entries of an array in row-major order
EntriesOf(a) ==
    IF a.tag = "ndarray" THEN EntriesOfEach(a.items) ELSE <<a>>

EntriesOfEach(xs) ==
    IF xs = <<>> THEN <<>> ELSE EntriesOf(Head(xs)) \o EntriesOfEach(Tail(xs))

\* the leaves of a structure, depth first and left to right, a dict giving its
\* values; an array stands as one leaf ("leaf"), or is replaced by its
\* entries ("entries"), or is replaced by its entries when it has at least one
\* dimension ("entries1")
LeavesOf(o, arrays) ==
    IF o.tag = "list" THEN LeavesOfEach(o.items, arrays)
    ELSE IF o.tag = "dict" THEN LeavesOfEach(o.vals, arrays)
    ELSE IF o.tag = "ndarray" /\ arrays = "entries" THEN EntriesOf(o)
    ELSE IF o.tag = "ndarray" /\ arrays = "entries1" /\ o.ndim >= 1 THEN EntriesOf(o)
    ELSE <<o>>

LeavesOfEach(xs, arrays) ==
    IF xs = <<>> THEN <<>>
    ELSE LeavesOf(Head(xs), arrays) \o LeavesOfEach(Tail(xs), arrays)

RECURSIVE KeysIn(_)
\* the keys of every dict of a structure
KeysIn(o) ==
    IF o.tag = "list" THEN UNION {KeysIn(o.items[i]) : i \in DOMAIN o.items}
    ELSE IF o.tag = "dict"
    THEN Range(o.keys) \cup UNION {KeysIn(o.vals[i]) : i \in DOMAIN o.vals}
    ELSE {}

IsStr(o) == o.tag = "str"
IsArray(o) == o.tag = "ndarray"

-----------------------------------------------------------------------------
(* Claims about iter_flattened *)

\* C5: with array flattening disabled, iter_flattened yields exactly the
\* leaves of the structure, each as often as it occurs, depth first and left
\* to right (a dict giving its values in iteration order): nothing is added,
\* dropped or deduplicated.
C5_YieldsLeavesInOrder ==
    (pc = "returned" /\ ~flat_ndarray) => flattened = LeavesOf(objs, "leaf")

\* a list holding a dict and a leaf that the dict holds too: the leaf is
\* yielded twice
C5_Witness ==
    /\ pc = "returned" /\ ~flat_ndarray
    /\ objs.tag = "list" /\ Len(objs.items) = 2
    /\ objs.items[1].tag = "dict"
    /\ flattened = <<PyInt(0), PyInt(0)>>

\* C6: a leaf is yielded as itself, once: a scalar or a string given alone
\* yields exactly itself, and the strings yielded from a nesting are exactly
\* the strings of the nesting, whole, whatever their length.
C6_LeafYieldsItself ==
    pc = "returned" =>
        /\ (objs.tag \in {"int", "str"} => flattened = <<objs>>)
        /\ SelectSeq(flattened, IsStr) = SelectSeq(LeavesOf(objs, "leaf"), IsStr)

\* a two-character string nested in a list is yielded whole
C6_Witness ==
    /\ pc = "returned"
    /\ objs.tag = "list"
    /\ PyStr(<<"a", "b">>) \in Range(objs.items)
    /\ PyStr(<<"a", "b">>) \in Range(flattened)

\* C7: no key of a traversed dict is yielded: a key occurs among the yielded
\* elements only as often as it occurs as a value leaf.
C7_NoKeyYielded ==
    pc = "returned" =>
        \A k \in KeysIn(objs) :
            Count(k, flattened) = Count(k, LeavesOf(objs, "leaf"))

\* a dict whose key "k" is not yielded and whose key "a" is yielded because
\* it is also a value
C7_Witness ==
    /\ pc = "returned"
    /\ objs.tag = "dict"
    /\ KeysIn(objs) = DictKeys
    /\ PyStr(<<"a">>) \in Range(flattened)
    /\ PyStr(<<"k">>) \notin Range(flattened)

\* C8 as stated: with flat_ndarray false every array is one leaf, with
\* flat_ndarray true every array is replaced by its scalar entries in order.
C8_EveryArrayFlattened ==
    pc = "returned" =>
        flattened = LeavesOf(objs, IF flat_ndarray THEN "entries" ELSE "leaf")

\* C8 amended: with flat_ndarray false every array is one leaf whatever its
\* shape; with flat_ndarray true every array of at least one dimension is
\* replaced by its scalar entries in order, and an array of dimensionality 0
\* is yielded as one leaf, itself.
C8_ArraysOfDimOneFlattened ==
    pc = "returned" =>
        /\ flattened = LeavesOf(objs, IF flat_ndarray THEN "entries1" ELSE "leaf")
        /\ (~flat_ndarray =>
                SelectSeq(flattened, IsArray)
                    = SelectSeq(LeavesOf(objs, "leaf"), IsArray))
        /\ (flat_ndarray => \A i \in DOMAIN flattened :
                IsArray(flattened[i]) => flattened[i].ndim = 0)

\* a list of the 0-d and the 2-d array flattened with flat_ndarray true
C8_Witness ==
    /\ pc = "returned" /\ flat_ndarray
    /\ objs = PyList(<<Array0, Array2>>)
    /\ flattened = <<Array0, NpScalar(1), NpScalar(2), NpScalar(3), NpScalar(4)>>

-----------------------------------------------------------------------------
(* Specification of successive filter_strings(targs, filters) calls *)

\* the names filtered
Names == {PyStr(<<"a", "b">>), PyStr(<<"b", "a">>), PyStr(<<"A", "b">>)}

SeqsUpTo(S, n) == UNION {[1..m -> S] : m \in 0..n}

TargLists == SeqsUpTo(Names, MaxTargs)

\* the string predicates '', 'a', 'ab', 'A'
Literals == {PyStr(<<>>), PyStr(<<"a">>), PyStr(<<"a", "b">>), PyStr(<<"A">>)}

\* the patterns re.compile('a'), re.compile('^b'), re.compile('.b$')
Patterns ==
    {Regex(FALSE, <<"a">>, FALSE), Regex(TRUE, <<"b">>, FALSE),
     Regex(FALSE, <<".", "b">>, TRUE)}

\* the predicates that may be members of a list predicate: None, a string,
\* a pattern, or a list nested in the list
SimpleFilters == {PyNone} \cup Literals \cup Patterns \cup {PyList(<<PyStr(<<"a">>)>>)}

FilterArgs ==
    SimpleFilters \cup {PyList(fs) : fs \in SeqsUpTo(SimpleFilters, MaxFilters)}

InitFilter ==
    /\ pc = "start"
    /\ targs0 \in TargLists
    /\ targs = targs0
    /\ calls = <<>>
    /\ objs = PyNone /\ flat_ndarray = FALSE /\ flattened = <<>>
    /\ heap = <<>> /\ container = PyNone /\ classname = PyNone
    /\ result = <<>>
    /\ IdleExtract /\ IdleSet /\ IdleDict /\ IdleWalk /\ IdleExt
    /\ IdleTraverse /\ IdleHdf

\* one call filter_strings(targs, f).  A second and later call on the same
\* list is explored for the predicates of SimpleFilters, and a second call
\* for the predicate of the first call, whichever it was.
CallFilterStrings ==
    \E f \in FilterArgs :
        /\ \/ calls = <<>>
           \/ /\ Len(calls) < MaxCalls
              /\ f \in SimpleFilters
              /\ \A c \in DOMAIN calls : calls[c].filters \in SimpleFilters
           \/ /\ Len(calls) = 1
              /\ f = calls[1].filters
        /\ targs' = FilterStrings(targs, f)
        /\ calls' = Append(calls, [filters |-> f,
                                   targs |-> FilterStrings(targs, f),
                                   ret |-> PyNone])
        /\ pc' = "returned"
        /\ UNCHANGED <<targs0, objs, flat_ndarray, flattened,
                       heap, container, classname, result>>
        /\ UNCHANGED <<extractVars, setVars, dictVars, walkVars, extVars>>
        /\ UNCHANGED <<traverseVars, hdfVars>>

NextFilter == CallFilterStrings

SpecFilter == InitFilter /\ [][NextFilter]_vars

-----------------------------------------------------------------------------
(* Claims about filter_strings *)

RECURSIVE Satisfies(_, _)
\* what a predicate asks of an item: nothing when empty or absent, the
\* substring when a string, a match somewhere when a pattern, all of its
\* members when a list
Satisfies(name, f) ==
    IF Falsy(f) THEN TRUE
    ELSE IF f.tag = "str" THEN Contains(name, f)
    ELSE IF f.tag = "regex" THEN \E i \in 1..(Len(name.chars) + 1) : MatchesAt(f, name, i)
    ELSE \A i \in DOMAIN f.items : Satisfies(name, f.items[i])

\* the items of t that satisfy f, in their order and multiplicity
Survivors(t, f) ==
    LET Keep(name) == Satisfies(name, f) IN SelectSeq(t, Keep)

NonEmptySingle(f) == f.tag \in {"str", "regex"} /\ ~Falsy(f)

\* C9: after filter_strings(targs, p) with one non-empty string or pattern p,
\* targs holds exactly the original items that satisfy p (substring for a
\* string, a match anywhere for a pattern), in their original order and
\* multiplicity, and the call returned nothing.
C9_SinglePredicateKeepsMatches ==
    (Len(calls) = 1 /\ NonEmptySingle(calls[1].filters)) =>
        /\ targs = Survivors(targs0, calls[1].filters)
        /\ calls[1].ret = PyNone

\* the pattern 'a' kept 'ba', which it matches after the first character,
\* and both occurrences of 'Ab', which fails it, are gone
C9_Witness ==
    /\ Len(calls) = 1
    /\ calls[1].filters = Regex(FALSE, <<"a">>, FALSE)
    /\ targs0 = <<PyStr(<<"A", "b">>), PyStr(<<"b", "a">>), PyStr(<<"A", "b">>)>>
    /\ targs = <<PyStr(<<"b", "a">>)>>

\* C10: a list predicate is the conjunction of its members: after
\* filter_strings(xs, [p1, p2]) xs holds exactly the items that satisfy p1
\* and p2, which is also what filter_strings(xs, p1) followed by
\* filter_strings(xs, p2) leaves.
C10_ListIsConjunction ==
    /\ (Len(calls) = 1 /\ calls[1].filters.tag = "list"
            /\ Len(calls[1].filters.items) = 2) =>
           LET p1 == calls[1].filters.items[1]
               p2 == calls[1].filters.items[2]
               Both(name) == Satisfies(name, p1) /\ Satisfies(name, p2)
           IN targs = SelectSeq(targs0, Both)
    /\ Len(calls) = 2 =>
           targs = FilterStrings(targs0, PyList(<<calls[1].filters, calls[2].filters>>))

\* two calls, with a string and then a pattern, each of which removed an item
C10_Witness ==
    /\ Len(calls) = 2
    /\ calls[1].filters = PyStr(<<"a">>)
    /\ calls[2].filters = Regex(TRUE, <<"b">>, FALSE)
    /\ Len(targs0) = 3
    /\ Len(calls[1].targs) = 2
    /\ Len(targs) = 1

\* C11: filter_strings is idempotent: a call with the predicate of the call
\* just before it (empty, string, pattern or list) leaves targs as that call
\* left it.
C11_SecondCallRemovesNothing ==
    \A i \in 2..Len(calls) :
        calls[i].filters = calls[i - 1].filters => calls[i].targs = calls[i - 1].targs

\* the list predicate ['a', '^b'] applied twice to ['ab', 'ba', 'Ab']: the
\* first call left 'ba' alone, the second left it there
C11_Witness ==
    /\ Len(calls) = 2
    /\ calls[1].filters = PyList(<<PyStr(<<"a">>), Regex(TRUE, <<"b">>, FALSE)>>)
    /\ calls[2].filters = calls[1].filters
    /\ targs0 = <<PyStr(<<"a", "b">>), PyStr(<<"b", "a">>), PyStr(<<"A", "b">>)>>
    /\ calls[1].targs = <<PyStr(<<"b", "a">>)>>
    /\ targs = <<PyStr(<<"b", "a">>)>>

\* C12: filter_strings with an empty or absent predicate (None, '' or [])
\* leaves targs unchanged.
C12_EmptyPredicateKeepsAll ==
    \A i \in DOMAIN calls :
        calls[i].filters \in {PyNone, PyStr(<<>>), PyList(<<>>)} =>
            calls[i].targs = (IF i = 1 THEN targs0 ELSE calls[i - 1].targs)

\* a list of three names, all still there after one call with None, '' or []
C12_Witness ==
    /\ Len(calls) = 1
    /\ calls[1].filters \in {PyNone, PyStr(<<>>), PyList(<<>>)}
    /\ Len(targs0) = 3
    /\ targs = targs0

-----------------------------------------------------------------------------
(* Specification of get_all_objs(container, classname) *)

Segment == PyStr(<<"S", "e", "g", "m", "e", "n", "t">>)
AnalogSignal ==
    PyStr(<<"A", "n", "a", "l", "o", "g", "S", "i", "g", "n", "a", "l">>)
\* the class name with the wrong capitalization
spiketrain == Lower(SpikeTrain)

ClassNames == {PyNone, SpikeTrain, Segment, spiketrain}

\* the classes of the objects of the heaps: object 1 a Segment, objects 2
\* and 3 SpikeTrains, object 4 an AnalogSignal
ClassOf(i) ==
    IF i = 1 THEN Segment ELSE IF i \in {2, 3} THEN SpikeTrain ELSE AnalogSignal

\* a neo object that holds no other object: no attribute of children, no
\* children_recur, no list_children_by_class
DataObject(cls) ==
    [cls |-> cls, flat |-> <<>>, has_recur |-> FALSE, has_list |-> FALSE,
     kids |-> <<>>, deep |-> <<>>]

\* the objects of a class among ids, in order
OfClass(ids, cls) ==
    LET Is(i) == ClassOf(i) = cls IN SelectSeq(ids, Is)

\* a neo object that holds the objects kids, which have the descendants
\* deep, with or without each of the three ways to reach them: the
\* attributes spiketrains and analogsignals, children_recur and
\* list_children_by_class
ContainerObject(cls, kids, deep, has_flat, has_recur, has_list) ==
    [cls |-> cls,
     flat |-> IF has_flat
              THEN [a \in {ClassHolder(SpikeTrain), ClassHolder(AnalogSignal)} |->
                       IF a = ClassHolder(SpikeTrain)
                       THEN OfClass(kids, SpikeTrain)
                       ELSE OfClass(kids, AnalogSignal)]
              ELSE <<>>,
     has_recur |-> has_recur, has_list |-> has_list,
     kids |-> kids, deep |-> deep]

\* the children listed by object 1 (a child may be listed twice) and the
\* further descendants its recursive listings add
KidLists == {<<>>, <<2, 2>>, <<4, 2>>, <<2, 4, 3>>}
DeepLists == {<<>>, <<3>>}

\* the heaps
Heaps ==
    {<<ContainerObject(ClassOf(1), kids, deep, f, r, l),
       DataObject(ClassOf(2)), DataObject(ClassOf(3)), DataObject(ClassOf(4))>>
     : kids \in KidLists, deep \in DeepLists,
       f \in BOOLEAN, r \in BOOLEAN, l \in BOOLEAN}

\* the heap in which object 1 holds nothing and has no capability
PlainHeap ==
    <<ContainerObject(ClassOf(1), <<>>, <<>>, FALSE, FALSE, FALSE),
      DataObject(ClassOf(2)), DataObject(ClassOf(3)), DataObject(ClassOf(4))>>

\* a heap in which object 1 is of the class of the objects it holds, with
\* every capability
SameClassHeap ==
    <<ContainerObject(SpikeTrain, <<2, 4, 3>>, <<>>, TRUE, TRUE, TRUE),
      DataObject(ClassOf(2)), DataObject(ClassOf(3)), DataObject(ClassOf(4))>>

CollectLeaves == {NeoRef(1), NeoRef(2), NeoRef(3), NeoRef(4), PyInt(0)}

\* the containers: nestings of lists and dicts of neo objects and integers,
\* and single objects that are neither
CollectInputs ==
    Structures(MaxContainerNodes, CollectLeaves)
        \cup {PyNone, PyStr(<<"a", "b">>), Array0, Array2}

InitCollect ==
    /\ pc = "start"
    /\ container \in CollectInputs
    /\ classname \in ClassNames
    /\ heap \in IF NeoRef(1) \in Range(IterFlattened(container, FALSE))
                THEN Heaps \cup {SameClassHeap} ELSE {PlainHeap}
    /\ result = <<>>
    /\ IdleExtract /\ IdleSet /\ IdleDict /\ IdleWalk /\ IdleExt
    /\ IdleTraverse /\ IdleHdf
    /\ objs = PyNone /\ flat_ndarray = FALSE /\ flattened = <<>>
    /\ targs = <<>> /\ targs0 = <<>> /\ calls = <<>>

CallGetAllObjs ==
    /\ pc = "start"
    /\ result' = GetAllObjs(heap, container, classname)
    /\ pc' = IF GetAllObjs(heap, container, classname).raised
             THEN "raised" ELSE "returned"
    /\ UNCHANGED <<heap, container, classname, objs, flat_ndarray, flattened,
                   targs, targs0, calls>>
    /\ UNCHANGED <<extractVars, setVars, dictVars, walkVars, extVars>>
    /\ UNCHANGED <<traverseVars, hdfVars>>

\* get_all_spiketrains(container): get_all_objs with the class name SpikeTrain
CallGetAllSpiketrains ==
    /\ pc = "start"
    /\ classname' = SpikeTrain
    /\ result' = GetAllSpiketrains(heap, container)
    /\ pc' = IF GetAllSpiketrains(heap, container).raised
             THEN "raised" ELSE "returned"
    /\ UNCHANGED <<heap, container, objs, flat_ndarray, flattened,
                   targs, targs0, calls>>
    /\ UNCHANGED <<extractVars, setVars, dictVars, walkVars, extVars>>
    /\ UNCHANGED <<traverseVars, hdfVars>>

NextCollect == CallGetAllObjs \/ CallGetAllSpiketrains

SpecCollect == InitCollect /\ [][NextCollect]_vars

-----------------------------------------------------------------------------
(* Claims about get_all_objs *)

\* C1: the list get_all_objs returns holds no object identity twice, by
\* whatever paths the object is reached.
C1_NoIdentityTwice ==
    pc = "returned" =>
        \A i, j \in DOMAIN result.objs : result.objs[i] = result.objs[j] => i = j

\* object 2 is an element of the list, is listed twice by object 1 and is in
\* its recursive listing: it is returned once
C1_Witness ==
    /\ pc = "returned"
    /\ classname = PyNone
    /\ container = PyList(<<NeoRef(1), NeoRef(2)>>)
    /\ heap[1].has_recur /\ heap[1].kids = <<2, 2>>
    /\ result.objs = <<1, 2>>

\* for a class name T, every flat attribute named for T and every
\* list_children_by_class(T) holds only objects of class T
HoldOnlyClass(h, cn) ==
    \A i \in DOMAIN h :
        /\ HasAttr(h, NeoRef(i), ClassHolder(cn)) =>
               \A x \in Range(h[i].flat[ClassHolder(cn)]) : h[x].cls = cn
        /\ h[i].has_list =>
               \A x \in Range(ListChildrenByClass(h, NeoRef(i), cn)) : h[x].cls = cn

\* C2: with a class name T, and the attributes and listings for T holding
\* only objects of class T, get_all_objs (and get_all_spiketrains, with
\* T = 'SpikeTrain') returns only objects whose class name is exactly T.
C2_OnlyRequestedClass ==
    (pc = "returned" /\ classname # PyNone /\ HoldOnlyClass(heap, classname)) =>
        \A i \in DOMAIN result.objs : heap[result.objs[i]].cls = classname

\* a list of a Segment that holds SpikeTrains and an AnalogSignal, and of a
\* SpikeTrain: the SpikeTrains alone are returned
C2_Witness ==
    /\ pc = "returned"
    /\ classname = SpikeTrain
    /\ container = PyList(<<NeoRef(1), NeoRef(2)>>)
    /\ heap[1].kids = <<2, 4, 3>>
    /\ result.objs = <<2, 3>>

\* C3: on a single object that is neither a list or dict nor a neo object
\* get_all_objs raises a TypeError naming the type of the object, whatever
\* the class name; it returns nothing.
C3_UndecomposableRaises ==
    (pc # "start" /\ ~HasFileOrigin(container)
                  /\ container.tag \notin {"list", "dict"}) =>
        /\ pc = "raised"
        /\ result = TypeError(PyStr(<<container.tag>>))

\* get_all_objs(0, 'SpikeTrain') raised
C3_Witness ==
    /\ pc = "raised"
    /\ container = PyInt(0)
    /\ classname = SpikeTrain
    /\ result.type = PyStr(<<"int">>)

\* C4: with no class name, a neo object gives itself followed by the objects
\* of its recursive listing, each once; a neo object without recursive
\* listing gives itself alone.
C4_ObjectThenDescendants ==
    (pc # "start" /\ HasFileOrigin(container) /\ classname = PyNone) =>
        /\ pc = "returned"
        /\ result.objs # <<>>
        /\ result.objs[1] = container.id
        /\ IF heap[container.id].has_recur
           THEN /\ Range(result.objs)
                       = {container.id} \cup Range(ChildrenRecur(heap, container))
                /\ Len(result.objs) = Cardinality(Range(result.objs))
           ELSE result.objs = <<container.id>>

\* object 1, whose recursive listing names object 3 twice, gives itself and
\* its three descendants
C4_Witness ==
    /\ pc = "returned"
    /\ classname = PyNone
    /\ container = NeoRef(1)
    /\ heap[1].has_recur
    /\ heap[1].kids = <<2, 4, 3>> /\ heap[1].deep = <<3>>
    /\ result.objs = <<1, 2, 4, 3>>

-----------------------------------------------------------------------------
(* neo_tools.extract_neo_attrs *)

(***************************************************************************)
(* A neo object here has its annotations (a dict: a function from the keys *)
(* it holds), its declared attributes _necessary_attrs and                 *)
(* _recommended_attrs (tuples (name, type) or (name, type, ndim)), its      *)
(* _quantity_attr when it has one, the attributes set on it (fields) and   *)
(* its parents, 0 standing for a parent that is None.                      *)
(***************************************************************************)

\* dict.update: a with the items of b, those of b winning
Update(a, b) ==
    [k \in DOMAIN a \cup DOMAIN b |-> IF k \in DOMAIN b THEN b[k] ELSE a[k]]

\* getattr(obj, name, None)
GetAttr(ob, name) ==
    IF name \in DOMAIN ob.fields THEN ob.fields[name] ELSE PyNone

\* `len(attr) >= 3 and attr[2]`: the declaration gives a dimensionality
\* that is not 0
IsArrayAttr(attr) == Len(attr) >= 3 /\ attr[3] # 0

\* a variant that takes no attribute for the quantity attribute
IsQuantityAttr_never(ob, name) == FALSE

\* `attr == getattr(obj, '_quantity_attr', None)`
IsQuantityAttr(ob, name) == ob.has_quantity /\ name = ob.quantity_attr

\* lines 51-58: the annotations, then each declared attribute that is not
\* skipped, with its value or None when the object lacks it
OwnAttrs(ob, skip_array) ==
    LET decl == ob.necessary \o ob.recommended
        names == {decl[i][1] : i \in {j \in DOMAIN decl :
                      /\ ~(skip_array /\ IsArrayAttr(decl[j]))
                      /\ ~IsQuantityAttr(ob, decl[j][1])}}
    IN [k \in DOMAIN ob.annotations \cup names |->
           IF k \in names THEN GetAttr(ob, k) ELSE ob.annotations[k]]

\* a variant that drops nothing
DropNone_keep(m) == m

\* lines 61-63: the dict without the keys whose value is None
DropNone(m) == [k \in {j \in DOMAIN m : m[j] # PyNone} |-> m[k]]

\* a variant in which the child always wins
MergeOne_childwins(own, newattr, child_first) == Update(newattr, own)

\* a variant in which the parent always wins
MergeOne_parentwins(own, newattr, child_first) == Update(own, newattr)

\* a variant in which a None of the child does not hide the parent's value
MergeOne_nonefilled(own, newattr, child_first) ==
    IF child_first THEN Update(newattr, DropNone(own)) ELSE Update(own, newattr)

\* lines 75-79: the dict after one parent's dict newattr is merged in
MergeOne(own, newattr, child_first) ==
    IF child_first THEN Update(newattr, own) ELSE Update(own, newattr)

\* a variant that works on the annotations dict of the object itself
Copy_same(o) == o

\* `obj.annotations.copy()`: whose annotations the dict worked on is, 0 for
\* a dict of its own
Copy(o) == 0

\* the objects after a dict is changed in place to m: the annotations of
\* its owner are that dict
WriteThrough(h, of, m) ==
    IF of = 0 THEN h ELSE [h EXCEPT ![of].annotations = m]

RECURSIVE ExtractNeoAttrsInPlace(_, _, _, _, _, _)
RECURSIVE MergeParents(_, _, _, _, _, _)

\* the loop of lines 68-79 over the parents ps left to merge, attrs being
\* cur.attrs, a dict of cur.owner: update changes the parent's dict
\* (child_first) or attrs in place, and that dict is attrs from then on
MergeParents(h, ps, cur, child_first, skip_array, skip_none) ==
    IF ps = <<>> THEN [attrs |-> cur.attrs, owner |-> cur.owner, heap |-> h]
    ELSE IF Head(ps) = 0
    THEN MergeParents(h, Tail(ps), cur, child_first, skip_array, skip_none)
    ELSE LET new == ExtractNeoAttrsInPlace(h, Head(ps), TRUE, child_first,
                                           skip_array, skip_none)
             merged == MergeOne(cur.attrs, new.attrs, child_first)
             kept == IF child_first THEN new.owner ELSE cur.owner
         IN MergeParents(WriteThrough(new.heap, kept, merged), Tail(ps),
                         [attrs |-> merged, owner |-> kept],
                         child_first, skip_array, skip_none)

\* the call with what it does to the dicts it works on: the dict returned,
\* the object whose annotations that dict is (0: no object's), and the
\* objects after the call
ExtractNeoAttrsInPlace(h, o, parents, child_first, skip_array, skip_none) ==
    LET all == OwnAttrs(h[o], skip_array)
        written == WriteThrough(h, Copy(o), all)
        own == IF skip_none
               THEN [attrs |-> DropNone(all), owner |-> 0]
               ELSE [attrs |-> all, owner |-> Copy(o)]
    IN IF ~parents
       THEN [attrs |-> own.attrs, owner |-> own.owner, heap |-> written]
       ELSE MergeParents(written, written[o].parents, own, child_first, skip_array,
                         skip_none)

\* extract_neo_attrs(obj, parents, child_first, skip_array, skip_none), obj
\* being the object o of h: the dict returned
ExtractNeoAttrs(h, o, parents, child_first, skip_array, skip_none) ==
    ExtractNeoAttrsInPlace(h, o, parents, child_first, skip_array,
                           skip_none).attrs

-----------------------------------------------------------------------------
(* Specification of extract_neo_attrs(obj, ...) *)

\* ancestors above the object: the longest chain of parents
MaxAncestors == 2

NeoIds == 1..(MaxAncestors + 1)

\* "data": a data object with the quantity attribute 'signal' (an array),
\*     the scalar attributes 'rate' and 'name' and the annotation 'k';
\* "annotated": a data object whose annotations hold the key 'signal' and
\*     None for 'k', whose 'rate' is None and which lacks 'name';
\* "holder": an object with no quantity attribute: 'name' and 'k' only.
NeoKinds == {"data", "annotated", "holder"}

\* the object i of a kind, with parents ps; what it holds is marked with i
NeoObject(kind, i, ps) ==
    [annotations |->
         IF kind = "annotated"
         THEN ("signal" :> PyInt(i)) @@ ("k" :> PyNone)
         ELSE ("k" :> PyInt(i)),
     necessary |->
         IF kind = "holder" THEN <<>>
         ELSE << <<"signal", "Quantity", 1>>, <<"rate", "Quantity", 0>> >>,
     recommended |-> << <<"name", "str">> >>,
     has_quantity |-> kind # "holder",
     quantity_attr |-> "signal",
     fields |->
         CASE kind = "data" ->
                  ("signal" :> NdArray(1, <<NpScalar(i)>>))
                      @@ ("rate" :> PyInt(i)) @@ ("name" :> PyInt(i))
           [] kind = "annotated" ->
                  ("signal" :> NdArray(1, <<NpScalar(i)>>)) @@ ("rate" :> PyNone)
           [] OTHER -> ("name" :> PyInt(i)),
     parents |-> ps]

\* the parents an object may have: none, the next object, None and the next
\* object, or the next two objects
ParentLists(i) ==
    {<<>>}
    \cup (IF i + 1 \in NeoIds THEN {<<i + 1>>, <<0, i + 1>>} ELSE {})
    \cup (IF i + 2 \in NeoIds THEN {<<i + 1, i + 2>>} ELSE {})

NeoHeaps ==
    {[i \in NeoIds |-> NeoObject(kinds[i], i, ps[i])] :
        kinds \in [NeoIds -> NeoKinds],
        ps \in {f \in [NeoIds -> UNION {ParentLists(i) : i \in NeoIds}] :
                   \A i \in NeoIds : f[i] \in ParentLists(i)}}

InitExtract ==
    /\ pc = "start"
    /\ neo \in NeoHeaps
    /\ neo0 = neo
    /\ owner = 0
    /\ xargs \in [obj : {1}, parents : BOOLEAN, child_first : BOOLEAN,
                  skip_array : BOOLEAN, skip_none : BOOLEAN]
    /\ attrs = <<>>
    /\ IdleFlatten /\ IdleFilter /\ IdleCollect
    /\ IdleSet /\ IdleDict /\ IdleWalk /\ IdleExt
    /\ IdleTraverse /\ IdleHdf

CallExtractNeoAttrs ==
    /\ pc = "start"
    /\ LET call == ExtractNeoAttrsInPlace(neo, xargs.obj, xargs.parents,
                                          xargs.child_first, xargs.skip_array,
                                          xargs.skip_none)
       IN /\ attrs' = ExtractNeoAttrs(neo, xargs.obj, xargs.parents,
                                      xargs.child_first, xargs.skip_array,
                                      xargs.skip_none)
          /\ neo' = call.heap
          /\ owner' = call.owner
    /\ pc' = "returned"
    /\ UNCHANGED <<neo0, xargs>>
    /\ UNCHANGED <<flattenVars, filterVars, collectVars, setVars, dictVars,
                   walkVars, extVars>>
    /\ UNCHANGED <<traverseVars, hdfVars>>

\* the caller sets a key of the dict it was returned
ModifyReturned ==
    /\ pc = "returned"
    /\ attrs' = Update(attrs, "new" :> PyInt(0))
    /\ neo' = WriteThrough(neo, owner, Update(attrs, "new" :> PyInt(0)))
    /\ pc' = "modified"
    /\ UNCHANGED <<neo0, owner, xargs>>
    /\ UNCHANGED <<flattenVars, filterVars, collectVars, setVars, dictVars,
                   walkVars, extVars>>
    /\ UNCHANGED <<traverseVars, hdfVars>>

NextExtract == CallExtractNeoAttrs \/ ModifyReturned

SpecExtract == InitExtract /\ [][NextExtract]_vars

-----------------------------------------------------------------------------
(* Claims about extract_neo_attrs *)

\* what an object holds by itself under the flags of the call: its
\* annotations and declared attributes, as extracted without its parents
OwnMap(o) ==
    ExtractNeoAttrs(neo, o, FALSE, xargs.child_first, xargs.skip_array,
                    xargs.skip_none)

\* the parents of an object that are not None, in order
ParentsOf(o) == SelectSeq(neo[o].parents, LAMBDA p : p # 0)

RECURSIVE Held(_, _)
\* the object or one of its ancestors holds the key
Held(o, k) ==
    \/ k \in DOMAIN OwnMap(o)
    \/ \E i \in DOMAIN ParentsOf(o) : Held(ParentsOf(o)[i], k)

RECURSIVE LastHolder(_, _)
\* the holder of the key found from an object that holds it or inherits it,
\* going up, at each level, to the last parent through which it is held
LastHolder(o, k) ==
    LET through == {i \in DOMAIN ParentsOf(o) : Held(ParentsOf(o)[i], k)}
    IN IF through = {} THEN o
       ELSE LastHolder(ParentsOf(o)[CHOOSE i \in through : \A j \in through : j <= i], k)

\* the keys that the object and its parent p hold with differing values
Conflicts(o, p) ==
    {k \in DOMAIN OwnMap(o) \cap DOMAIN OwnMap(p) : OwnMap(o)[k] # OwnMap(p)[k]}

\* C13 as stated: for a key held with differing values by the object and by
\* a parent of it, extraction with the parents returns the object's value when
\* child_first is true and that parent's value when it is false.
C13_ChildOrParentValue ==
    (pc = "returned" /\ xargs.parents) =>
        \A i \in DOMAIN ParentsOf(xargs.obj) :
            \A k \in Conflicts(xargs.obj, ParentsOf(xargs.obj)[i]) :
                attrs[k] = IF xargs.child_first
                           THEN OwnMap(xargs.obj)[k]
                           ELSE OwnMap(ParentsOf(xargs.obj)[i])[k]

\* C13: for a key held with differing values by the object and by a parent of
\* it, extraction with the parents returns the object's value when child_first
\* is true; when it is false it returns the value of the topmost holder on the
\* line of last parents holding the key, which is the parent's own value only
\* when no ancestor of the parent and no later parent holds the key.
C13_ChildOrTopmostValue ==
    (pc = "returned" /\ xargs.parents) =>
        \A i \in DOMAIN ParentsOf(xargs.obj) :
            \A k \in Conflicts(xargs.obj, ParentsOf(xargs.obj)[i]) :
                attrs[k] = IF xargs.child_first
                           THEN OwnMap(xargs.obj)[k]
                           ELSE OwnMap(LastHolder(xargs.obj, k))[k]

\* a chain of three objects that each annotate 'k' with their own value,
\* extracted from the lowest with child_first false: the value returned is
\* the grandparent's, not the parent's
C13_Witness ==
    /\ pc = "returned" /\ xargs.parents /\ ~xargs.child_first
    /\ neo[1].parents = <<2>> /\ neo[2].parents = <<3>>
    /\ neo[1].annotations["k"] = PyInt(1)
    /\ neo[2].annotations["k"] = PyInt(2)
    /\ neo[3].annotations["k"] = PyInt(3)
    /\ attrs["k"] = PyInt(3)

\* C14 as stated: the name of the object's quantity attribute is never a key
\* of the returned dict.
C14_QuantityNeverAKey ==
    (pc = "returned" /\ neo[xargs.obj].has_quantity) =>
        neo[xargs.obj].quantity_attr \notin DOMAIN attrs

\* C14: the object's quantity attribute is never extracted: when its name is
\* a key of the returned dict, the value is not the quantity but that of an
\* annotation of this name on the object, or what an ancestor holds under
\* this name, parents being included.
C14_QuantityNotExtracted ==
    (pc = "returned" /\ neo[xargs.obj].has_quantity) =>
        LET q == neo[xargs.obj].quantity_attr
        IN q \in DOMAIN attrs =>
               /\ attrs[q] # GetAttr(neo[xargs.obj], q)
               /\ \/ /\ q \in DOMAIN neo[xargs.obj].annotations
                     /\ attrs[q] = neo[xargs.obj].annotations[q]
                  \/ /\ xargs.parents
                     /\ \E p \in NeoIds \ {xargs.obj} :
                            /\ q \in DOMAIN OwnMap(p)
                            /\ attrs[q] = OwnMap(p)[q]

\* a data object without an annotation 'signal', whose parent annotates
\* 'signal': the key is in the dict with the parent's annotation
C14_Witness ==
    /\ pc = "returned" /\ xargs.parents
    /\ neo[1].has_quantity /\ neo[1].quantity_attr = "signal"
    /\ "signal" \notin DOMAIN neo[1].annotations
    /\ neo[1].parents = <<2>>
    /\ "signal" \in DOMAIN attrs
    /\ attrs["signal"] = PyInt(2)

\* C15: with skip_none true no key of the returned dict has the value None,
\* be it from the annotations, from a declared attribute (one the object
\* lacks reads as None) or from an ancestor.
C15_NoNoneWhenSkipped ==
    (pc = "returned" /\ xargs.skip_none) =>
        \A k \in DOMAIN attrs : attrs[k] # PyNone

\* an object that annotates 'k' with None, has None as 'rate' and lacks
\* 'name', and whose grandparent is like it, extracted with the parents:
\* none of the three keys is in the dict, which is not empty
C15_Witness ==
    /\ pc = "returned" /\ xargs.skip_none /\ xargs.parents
    /\ neo[1].annotations["k"] = PyNone
    /\ GetAttr(neo[1], "rate") = PyNone
    /\ "name" \notin DOMAIN neo[1].fields
    /\ neo[1].parents = <<2>> /\ neo[2].parents = <<3>>
    /\ neo[2].annotations["k"] = PyNone /\ neo[3].annotations["k"] = PyNone
    /\ DOMAIN attrs = {"signal"}

-----------------------------------------------------------------------------
(* neo_tools.set_all_attrs *)

(***************************************************************************)
(* The attributes set on the neo objects are in a store: for each object   *)
(* of the heap, a function from the names of its attributes to their       *)
(* values.  Every neo object has file_origin.                              *)
(***************************************************************************)

\* a variant that sets the attribute whether or not the object has it
SetAttrIf_always(st, o, attr, value, create) ==
    [st EXCEPT ![o] = Update(@, attr :> value)]

\* `if create or hasattr(obj, attr): setattr(obj, attr, value)`
SetAttrIf(st, o, attr, value, create) ==
    IF create \/ attr \in DOMAIN st[o]
    THEN [st EXCEPT ![o] = Update(@, attr :> value)]
    ELSE st

RECURSIVE SetForChildren(_, _, _, _, _, _)
\* lines 169-171: for each child of obj the test and the assignment are
\* made again on obj
SetForChildren(kids, st, o, attr, value, create) ==
    IF kids = <<>> THEN st
    ELSE SetForChildren(Tail(kids), SetAttrIf(st, o, attr, value, create),
                        o, attr, value, create)

RECURSIVE SetAllAttrsEach(_, _, _, _, _, _)
\* the loop of lines 166-171 over the objects os left
SetAllAttrsEach(h, os, st, attr, value, create) ==
    IF os = <<>> THEN st
    ELSE LET o == Head(os)
             kids == IF h[o].has_recur THEN ChildrenRecur(h, NeoRef(o)) ELSE <<>>
         IN SetAllAttrsEach(h, Tail(os),
                SetForChildren(kids, SetAttrIf(st, o, attr, value, create),
                               o, attr, value, create),
                attr, value, create)

\* set_all_attrs(neoobj, attr, value, create): the exception raised, if any,
\* and the store after the call
SetAllAttrs(h, st, neoobj, attr, value, create) ==
    LET got == GetAllObjs(h, neoobj, PyNone)
    IN IF got.raised
       THEN [raised |-> TRUE, exc |-> "TypeError", store |-> st]
       ELSE [raised |-> FALSE, exc |-> "",
             store |-> SetAllAttrsEach(h, got.objs, st, attr, value, create)]

-----------------------------------------------------------------------------
(* Specification of set_all_attrs(neoobj, attr, value, create) *)

\* the heaps: object 1 is a container with every capability of one, holding
\* children and descendants or not; the others are data objects
SetHeaps ==
    {<<ContainerObject(ClassOf(1), kids, deep, TRUE, TRUE, TRUE),
       DataObject(ClassOf(2)), DataObject(ClassOf(3)), DataObject(ClassOf(4))>>
     : kids \in KidLists, deep \in DeepLists} \cup {PlainHeap}

\* the stores: every object has file_origin, and the objects of one of the
\* sets have the attribute 'foo'
Stores ==
    {[i \in DOMAIN PlainHeap |->
         IF i \in have
         THEN ("file_origin" :> PyNone) @@ ("foo" :> PyInt(0))
         ELSE ("file_origin" :> PyNone)]
     : have \in {{}, {1, 3}, {2, 4}, {1, 2, 3, 4}}}

InitSet ==
    /\ pc = "start"
    /\ container \in CollectInputs
    /\ heap \in IF NeoRef(1) \in Range(IterFlattened(container, FALSE))
                THEN SetHeaps ELSE {PlainHeap}
    /\ classname = PyNone /\ result = <<>>
    /\ store0 \in Stores
    /\ store = store0
    /\ sargs \in [attr : {"foo"}, value : {PyInt(1)}, create : BOOLEAN]
    /\ IdleFlatten /\ IdleFilter /\ IdleExtract
    /\ IdleDict /\ IdleWalk /\ IdleExt
    /\ IdleTraverse /\ IdleHdf

CallSetAllAttrs ==
    /\ pc = "start"
    /\ LET r == SetAllAttrs(heap, store, container, sargs.attr, sargs.value,
                            sargs.create)
       IN /\ store' = r.store
          /\ result' = [raised |-> r.raised, exc |-> r.exc]
          /\ pc' = IF r.raised THEN "raised" ELSE "returned"
    /\ UNCHANGED <<heap, container, classname, store0, sargs>>
    /\ UNCHANGED <<flattenVars, filterVars, extractVars, dictVars, walkVars,
                   extVars>>
    /\ UNCHANGED <<traverseVars, hdfVars>>

NextSet == CallSetAllAttrs

SpecSet == InitSet /\ [][NextSet]_vars

-----------------------------------------------------------------------------
(* Claims about set_all_attrs *)

\* the container is made of neo objects only
OnlyNeo(c) ==
    \A i \in DOMAIN IterFlattened(c, FALSE) : HasFileOrigin(IterFlattened(c, FALSE)[i])

\* the neo objects in the container and all their descendants
Targets(h, c) ==
    LET top == {l.id : l \in {m \in Range(IterFlattened(c, FALSE)) : HasFileOrigin(m)}}
    IN top \cup UNION {Range(h[i].kids) \cup Range(h[i].deep) : i \in top}

\* the objects among them that lack the attribute before the call
Lacking == {o \in Targets(heap, container) : sargs.attr \notin DOMAIN store0[o]}

\* C16 as stated: with create false and an object among x and its
\* descendants lacking attr, set_all_attrs raises AttributeError.
C16_LackingRaises ==
    (pc # "start" /\ OnlyNeo(container) /\ ~sargs.create /\ Lacking # {}) =>
        /\ pc = "raised"
        /\ result.exc = "AttributeError"

\* C16: with create false and an object among x and its descendants lacking
\* attr, set_all_attrs raises nothing: it returns, and each object that
\* lacked attr is as it was.
C16_LackingSkipped ==
    (pc # "start" /\ OnlyNeo(container) /\ ~sargs.create /\ Lacking # {}) =>
        /\ pc = "returned"
        /\ ~result.raised
        /\ \A o \in Lacking : store[o] = store0[o]

\* a container object whose child 4 has 'foo' and whose child 2 and
\* descendant 3, like itself, lack it: after the call without create only 4
\* has the new value
C16_Witness ==
    /\ pc = "returned" /\ ~sargs.create /\ sargs.attr = "foo"
    /\ container = NeoRef(1)
    /\ heap[1].kids = <<2, 4, 3>>
    /\ Lacking = {1, 3}
    /\ store[4]["foo"] = PyInt(1)
    /\ store[2]["foo"] = PyInt(1)
    /\ store[1] = store0[1] /\ store[3] = store0[3]

\* C17: after set_all_attrs returns, every object among x, or the neo objects
\* in x, and their descendants has attr equal to value if create is true or
\* the object had attr before; with create false an object that lacked attr
\* is as it was.  An attribute other than attr is never touched.
C17_SetWhereAllowed ==
    pc = "returned" =>
        \A o \in Targets(heap, container) :
            IF sargs.create \/ sargs.attr \in DOMAIN store0[o]
            THEN /\ sargs.attr \in DOMAIN store[o]
                 /\ store[o][sargs.attr] = sargs.value
                 /\ \A a \in DOMAIN store0[o] \ {sargs.attr} :
                        a \in DOMAIN store[o] /\ store[o][a] = store0[o][a]
            ELSE store[o] = store0[o]

\* a list of a container object and a data object, with create: the container
\* object, its children 2 and 4, its descendant 3 all have 'foo' with the value
C17_Witness ==
    /\ pc = "returned" /\ sargs.create /\ sargs.attr = "foo"
    /\ container = PyList(<<NeoRef(1), NeoRef(4)>>)
    /\ heap[1].kids = <<2, 2>> /\ heap[1].deep = <<3>>
    /\ \A o \in DOMAIN store0 : "foo" \notin DOMAIN store0[o]
    /\ \A o \in {1, 2, 3, 4} : store[o]["foo"] = PyInt(1)

-----------------------------------------------------------------------------
(* neo_file_tools.neo_files_to_dict and neo_tools.neo_files_to_dict *)

\* whether the module has the name os: neo_file_tools imports os.path,
\* neo_tools, which holds the same functions, imports neither os nor os.path
HasOs(module) == module = "neo_file_tools"

(***************************************************************************)
(* A path is the sequence of its components.  A dict is a function from    *)
(* its keys; the entry of a directory is a dict or the list of the objects *)
(* stored there.  curdict, a reference to objdict or to a dict nested in   *)
(* it, is the sequence of keys that leads from objdict to it.              *)
(***************************************************************************)

\* objects read in one call
MaxFiles == 2
\* dicts nested in objdict: the loop is followed up to this depth
MaxDepth == 3

\* os.path.split(path): the pair of what is before the last separator and
\* what is after it
OsPathSplit(path) == <<SubSeq(path, 1, Len(path) - 1), path[Len(path)]>>

RECURSIVE DictAt(_, _)
\* the dict that the keys loc lead to from d
DictAt(d, loc) == IF loc = <<>> THEN d ELSE DictAt(d[Head(loc)], Tail(loc))

RECURSIVE DictSet(_, _, _, _)
\* d after `curdict[key] = val`, the keys loc leading from d to curdict
DictSet(d, loc, key, val) ==
    IF loc = <<>> THEN Update(d, key :> val)
    ELSE [d EXCEPT ![Head(loc)] = DictSet(@, Tail(loc), key, val)]

-----------------------------------------------------------------------------
(* Specification of neo_files_to_dict, statement by statement *)

\* file_origin of the objects read: 'a', './a', 'd/a', 'd/b', 'd/e/a'
Origins ==
    {<<"a">>, <<".", "a">>, <<"d", "a">>, <<"d", "b">>, <<"d", "e", "a">>}

InitDict ==
    /\ pc = "for"
    /\ origins \in SeqsUpTo(Origins, MaxFiles)
    /\ objdict = <<>> /\ curdict = <<>> /\ idx = 0
    /\ dmodule \in {"neo_file_tools", "neo_tools"}
    /\ dexc = PyNone
    /\ IdleFlatten /\ IdleFilter /\ IdleCollect /\ IdleExtract
    /\ IdleSet /\ IdleWalk /\ IdleExt
    /\ IdleTraverse /\ IdleHdf

\* lines 181-183 and 192: the next object, if any, with curdict at objdict;
\* `return objdict` after the last.  In neo_tools (lines 448-450) os is not
\* defined and os.path.split raises NameError for the first object.
DictFor ==
    /\ pc = "for"
    /\ IF idx < Len(origins)
       THEN /\ idx' = idx + 1
            /\ IF HasOs(dmodule)
               THEN curdict' = <<>> /\ pc' = "while" /\ dexc' = dexc
               ELSE /\ curdict' = curdict /\ pc' = "raised"
                    /\ dexc' = PyStr(<<"NameError">>)
       ELSE pc' = "returned" /\ UNCHANGED <<idx, curdict, dexc>>
    /\ UNCHANGED <<origins, objdict, dmodule>>
    /\ UNCHANGED <<flattenVars, filterVars, collectVars, extractVars, setVars,
                   walkVars, extVars>>
    /\ UNCHANGED <<traverseVars, hdfVars>>

\* lines 184-190: one test of `while len(path) > 1` with the body that
\* follows it, or with the statements after the loop when it fails.  path is
\* assigned before the loop only.
DictWhile ==
    /\ pc = "while"
    /\ Len(curdict) < MaxDepth
    /\ LET path == OsPathSplit(origins[idx])
           cur == DictAt(objdict, curdict)
       IN IF Len(path) > 1
          THEN /\ IF path[1] \notin DOMAIN cur
                  THEN /\ objdict' = DictSet(objdict, curdict, path[1], <<>>)
                       /\ curdict' = Append(curdict, path[1])
                  ELSE UNCHANGED <<objdict, curdict>>
               /\ pc' = "while"
          ELSE /\ objdict' =
                      DictSet(objdict, curdict, path[1],
                              PyList(Append(IF path[1] \in DOMAIN cur
                                            THEN cur[path[1]].items ELSE <<>>,
                                            idx)))
               /\ pc' = "for"
               /\ UNCHANGED curdict
    /\ UNCHANGED <<origins, idx, dmodule, dexc>>
    /\ UNCHANGED <<flattenVars, filterVars, collectVars, extractVars, setVars,
                   walkVars, extVars>>
    /\ UNCHANGED <<traverseVars, hdfVars>>

NextDict == DictFor \/ DictWhile

SpecDict == InitDict /\ [][NextDict]_vars /\ WF_vars(NextDict)

\* C18 as stated: neo_files_to_dict terminates for every finite set of files
\* read and returns a dict nested as the directories of the objects read are:
\* the call returns in the end, and as entries are only ever added, at no
\* time are dicts nested deeper than the path of the object being stored has
\* components.
C18_ReturnsDirectoryDict ==
    /\ [](pc = "while" => Len(curdict) <= Len(origins[idx]))
    /\ <>(pc = "returned")

-----------------------------------------------------------------------------
(* file_tools.filter_by_extensions *)

\* os.path.splitext(name)[1] for a name without separators: the name from
\* its last dot on when something other than dots is before that dot, ''
\* otherwise
Splitext(name) ==
    LET cs == name.chars
        dots == {i \in DOMAIN cs : cs[i] = "."}
        last == CHOOSE d \in dots : \A e \in dots : e <= d
    IN IF dots # {} /\ \E j \in 1..(last - 1) : cs[j] # "."
       THEN PyStr(SubSeq(cs, last, Len(cs)))
       ELSE PyStr(<<>>)

RECURSIVE ExtLoop(_, _, _)
\* lines 55-57: `for name in filenames[:]: if <extension of name> not in
\* extensions: filenames.remove(name)`
ExtLoop(copy, cur, exts) ==
    IF copy = <<>> THEN cur
    ELSE IF Splitext(Head(copy)) \notin Range(exts)
    THEN ExtLoop(Tail(copy), Remove(cur, Head(copy)), exts)
    ELSE ExtLoop(Tail(copy), cur, exts)

\* filter_by_extensions(filenames, extensions): the exception raised, if
\* any, and the content of filenames after the call
FilterByExtensions(names, exts) ==
    IF Falsy(exts) THEN [raised |-> FALSE, exc |-> "", names |-> names]
    ELSE LET list == IF HasLower(exts) THEN <<exts>> ELSE Iterate(exts)
         IN IF \E i \in DOMAIN list : list[i].chars = <<>>
            THEN \* ext[0] of '' at line 53
                 [raised |-> TRUE, exc |-> "IndexError", names |-> names]
            ELSE [raised |-> FALSE, exc |-> "",
                  names |-> ExtLoop(names, names,
                                [i \in DOMAIN list |->
                                    IF list[i].chars[1] # "."
                                    THEN PyStr(<<".">> \o list[i].chars)
                                    ELSE list[i]])]

-----------------------------------------------------------------------------
(* Specification of filter_by_extensions(filenames, extensions) *)

\* names in filenames
MaxNames == 3
\* members of an extensions list
MaxExts == 2

\* 'a.x', 'b.y', 'c' and '.x'
FileNames ==
    {PyStr(<<"a", ".", "x">>), PyStr(<<"b", ".", "y">>), PyStr(<<"c">>),
     PyStr(<<".", "x">>)}

\* None, 'x', '.x', '' and the lists of 'x', '.y' and ''
ExtArgs ==
    {PyNone, PyStr(<<"x">>), PyStr(<<".", "x">>), PyStr(<<>>)}
    \cup {PyList(es) : es \in SeqsUpTo({PyStr(<<"x">>), PyStr(<<".", "y">>),
                                        PyStr(<<>>)}, MaxExts)}

InitExt ==
    /\ pc = "start"
    /\ filenames0 \in SeqsUpTo(FileNames, MaxNames)
    /\ filenames = filenames0
    /\ extensions \in ExtArgs
    /\ IdleFlatten /\ IdleFilter /\ IdleCollect /\ IdleExtract
    /\ IdleSet /\ IdleDict /\ IdleWalk
    /\ IdleTraverse /\ IdleHdf

CallFilterByExtensions ==
    /\ pc = "start"
    /\ filenames' = FilterByExtensions(filenames, extensions).names
    /\ pc' = IF FilterByExtensions(filenames, extensions).raised
             THEN "raised" ELSE "returned"
    /\ UNCHANGED <<filenames0, extensions>>
    /\ UNCHANGED <<flattenVars, filterVars, collectVars, extractVars, setVars,
                   dictVars, walkVars>>
    /\ UNCHANGED <<traverseVars, hdfVars>>

NextExt == CallFilterByExtensions

SpecExt == InitExt /\ [][NextExt]_vars

\* C20 as stated: with an extensions list that contains '', the call leaves
\* in filenames the names without extension and the names with another
\* listed extension, in their order, and removes the rest.
C20_EmptyExtensionKeepsBare ==
    (pc # "start" /\ extensions.tag = "list"
         /\ PyStr(<<>>) \in Range(extensions.items)) =>
        LET Listed(n) ==
                \/ Splitext(n) = PyStr(<<>>)
                \/ \E i \in DOMAIN extensions.items :
                       LET e == extensions.items[i].chars
                       IN e # <<>> /\ Splitext(n).chars \in {e, <<".">> \o e}
        IN pc = "returned" /\ filenames = SelectSeq(filenames0, Listed)

-----------------------------------------------------------------------------
(* file_tools.yield_files_paths *)

(***************************************************************************)
(* What os.walk(targdir) yields is a sequence of directories, targdir      *)
(* first and each directory before the directories in it, each with the    *)
(* names of its directories from targdir down (rel) and its file names.    *)
(* A directory that is a symbolic link (link) is gone through only with    *)
(* followlinks.                                                            *)
(***************************************************************************)

\* os.path.join(a, b) for a relative b
Join(a, b) == PyStr(a.chars \o <<"/">> \o b.chars)

RECURSIVE JoinAll(_, _)
\* os.path.join(a, rel[1], rel[2], ...)
JoinAll(a, rel) == IF rel = <<>> THEN a ELSE JoinAll(Join(a, Head(rel)), Tail(rel))

\* os.path.relpath(dirpath, targdir): '.' for targdir itself
RelPath(rel) ==
    IF rel = <<>> THEN PyStr(<<".">>) ELSE JoinAll(Head(rel), Tail(rel))

RECURSIVE WalkLoop(_, _, _)
\* the loop of lines 121-134 over the directories left, out being the paths
\* yielded so far
WalkLoop(dirs, a, out) ==
    IF dirs = <<>> THEN [raised |-> FALSE, exc |-> "", paths |-> out]
    ELSE LET dirpath ==
                 JoinAll(IF a.targdir = PyNone THEN PyStr(<<".">>) ELSE a.targdir,
                         Head(dirs).rel)
             byext == FilterByExtensions(Head(dirs).files, a.extensions)
             names == FilterStrings(byext.names, a.filefilters)
             curdir == FilterStrings(<<RelPath(Head(dirs).rel)>>, a.dirfilters)
             out2 == IF curdir # <<>>
                     THEN out \o [i \in DOMAIN names |-> Join(dirpath, names[i])]
                     ELSE out
         IN IF byext.raised
            THEN [raised |-> TRUE, exc |-> byext.exc, paths |-> out]
            ELSE IF ~a.rescursive
            THEN [raised |-> FALSE, exc |-> "", paths |-> out2]
            ELSE WalkLoop(Tail(dirs), a, out2)

\* os.walk(targdir, followlinks=followlinks): the directories of the tree
\* gone through
OsWalk(dirs, followlinks) ==
    SelectSeq(dirs, LAMBDA d : followlinks \/ ~d.link)

\* a variant that stops after targdir whatever rescursive is
YieldFilesPaths_toponly(dirs, a) ==
    WalkLoop(SubSeq(OsWalk(dirs, a.followlinks), 1, 1), a, <<>>)

\* list(yield_files_paths(targdir, rescursive, extensions, filefilters,
\* dirfilters, followlinks)): the paths yielded, and the exception that ended
\* it, if any
YieldFilesPaths(dirs, a) == WalkLoop(OsWalk(dirs, a.followlinks), a, <<>>)

-----------------------------------------------------------------------------
(* Specification of list(yield_files_paths(...)) *)

\* directories os.walk goes through, targdir included
MaxDirs == 2

\* the directories 'd', 'ad' and 'd/e' below targdir; 'ad' is a symbolic link
\* to a directory
DirRels ==
    {<<PyStr(<<"d">>)>>, <<PyStr(<<"a", "d">>)>>,
     <<PyStr(<<"d">>), PyStr(<<"e">>)>>}

\* the files of a directory: none, 'a.x', or 'c' and 'a.x'
FileLists ==
    {<<>>, <<PyStr(<<"a", ".", "x">>)>>,
     <<PyStr(<<"c">>), PyStr(<<"a", ".", "x">>)>>}

\* targdir, then directories below it, each once, a directory of a directory
\* after it with only directories of that one in between
Trees ==
    {t \in SeqsUpTo([rel : {<<>>} \cup DirRels, files : FileLists,
                      link : BOOLEAN], MaxDirs) :
        /\ Len(t) >= 1
        /\ \A i \in DOMAIN t : t[i].link <=> (t[i].rel = <<PyStr(<<"a", "d">>)>>)
        /\ \A i \in DOMAIN t : (t[i].rel = <<>>) <=> (i = 1)
        /\ \A i, j \in DOMAIN t : t[i].rel = t[j].rel => i = j
        /\ \A i \in DOMAIN t :
               Len(t[i].rel) > 1 =>
                   \E j \in 1..(i - 1) :
                       /\ t[j].rel = SubSeq(t[i].rel, 1, Len(t[i].rel) - 1)
                       /\ \A m \in (j + 1)..(i - 1) :
                              /\ Len(t[m].rel) > Len(t[j].rel)
                              /\ SubSeq(t[m].rel, 1, Len(t[j].rel)) = t[j].rel}

\* the predicates given as dirfilters: None, [], 'a', '^d' and ['d', 'e']
DirFilters ==
    {PyNone, PyList(<<>>), PyStr(<<"a">>), Regex(TRUE, <<"d">>, FALSE),
     PyList(<<PyStr(<<"d">>), PyStr(<<"e">>)>>)}

InitWalk ==
    /\ pc = "start"
    /\ tree \in Trees
    /\ wargs \in [targdir : {PyNone, PyStr(<<"t">>)},
                  rescursive : BOOLEAN,
                  extensions : {PyNone, PyList(<<>>), PyStr(<<"x">>),
                                PyList(<<PyStr(<<>>)>>)},
                  filefilters : {PyNone, PyList(<<>>), PyStr(<<"a">>)},
                  dirfilters : DirFilters,
                  followlinks : BOOLEAN]
    /\ yielded = <<>>
    /\ IdleFlatten /\ IdleFilter /\ IdleCollect /\ IdleExtract
    /\ IdleSet /\ IdleDict /\ IdleExt
    /\ IdleTraverse /\ IdleHdf

CallYieldFilesPaths ==
    /\ pc = "start"
    /\ yielded' = YieldFilesPaths(tree, wargs).paths
    /\ pc' = IF YieldFilesPaths(tree, wargs).raised THEN "raised" ELSE "returned"
    /\ UNCHANGED <<tree, wargs>>
    /\ UNCHANGED <<flattenVars, filterVars, collectVars, extractVars, setVars,
                   dictVars, extVars>>
    /\ UNCHANGED <<traverseVars, hdfVars>>

NextWalk == CallYieldFilesPaths

SpecWalk == InitWalk /\ [][NextWalk]_vars

\* C19 as stated: whatever dirfilters is, the files directly in targdir are
\* yielded as they are with dirfilters None, and when rescursive is false
\* nothing else is yielded, so that dirfilters has no effect at all.
C19_DirfiltersSpareTargdir ==
    pc = "returned" =>
        LET top == YieldFilesPaths(<<tree[1]>>, [wargs EXCEPT !.dirfilters = PyNone]).paths
        IN /\ Len(yielded) >= Len(top)
           /\ SubSeq(yielded, 1, Len(top)) = top
           /\ ~wargs.rescursive => yielded = top

\* C21: when extensions, filefilters and dirfilters are each None or [],
\* the paths yielded are, each once, those of the files directly in targdir
\* and no other when rescursive is false, whatever followlinks is, and those
\* of the files of every directory of the tree gone through when rescursive
\* is true; each is the path of the directory, from targdir, joined with the
\* file name.
C21_NoFilterYieldsEveryFile ==
    (/\ pc # "start"
     /\ {wargs.extensions, wargs.filefilters, wargs.dirfilters}
            \subseteq {PyNone, PyList(<<>>)}) =>
        LET top == IF wargs.targdir = PyNone THEN PyStr(<<".">>) ELSE wargs.targdir
            gone == {i \in DOMAIN tree :
                        IF wargs.rescursive
                        THEN wargs.followlinks \/ ~tree[i].link
                        ELSE i = 1}
        IN /\ pc = "returned"
           /\ Range(yielded) =
                  UNION {{Join(JoinAll(top, tree[i].rel), tree[i].files[j]) :
                              j \in DOMAIN tree[i].files} : i \in gone}
           /\ \A i, j \in DOMAIN yielded : yielded[i] = yielded[j] => i = j

\* targdir 't' with 'c' and 'a.x' and its directory 'd' with 'a.x', gone
\* through with rescursive true, extensions [] and the other filters None
C21_Witness ==
    /\ pc = "returned" /\ wargs.rescursive /\ wargs.targdir = PyStr(<<"t">>)
    /\ wargs.extensions = PyList(<<>>)
    /\ wargs.filefilters = PyNone /\ wargs.dirfilters = PyNone
    /\ Len(tree) = 2 /\ tree[2].rel = <<PyStr(<<"d">>)>>
    /\ yielded = <<PyStr(<<"t", "/", "c">>), PyStr(<<"t", "/", "a", ".", "x">>),
                   PyStr(<<"t", "/", "d", "/", "a", ".", "x">>)>>

-----------------------------------------------------------------------------
(* general_tools.iter_flattened, one step of its generators at a time *)

\* the size of the structures traversed step by step
MaxTraverseNodes == 3

\* the generators that can be running at once (the interpreter's recursion
\* limit), above what a structure of MaxTraverseNodes nodes needs: two for
\* each dict, one for each list, three for the array of dimensionality 2
RecursionLimit == 2 * MaxTraverseNodes + 3

\* a variant that takes a string for any other iterable
Descends_strings(o, flat) ==
    \/ HasIter(o) /\ ~HasNdim(o)
    \/ flat /\ GetNdim(o) # 0

\* whether iter_flattened(o) loops over the elements of o (second and third
\* branch)
Descends(o, flat) ==
    \/ HasIter(o) /\ ~HasLower(o) /\ ~HasNdim(o)
    \/ flat /\ GetNdim(o) # 0

\* a generator iter_flattened(o): not yet at its first statement, or in its
\* loop with the objects in todo still to be given to a generator each
Generator(o) == [objs |-> o, entered |-> FALSE, todo |-> <<>>]

Top == frames[Len(frames)]

\* the running generators once the innermost one is over
Finished == SubSeq(frames, 1, Len(frames) - 1)

TraverseLeaves == {PyInt(0), PyStr(<<"a">>), PyStr(<<"a", "b">>), Array2}

InitTraverse ==
    /\ pc = "running"
    /\ objs \in Structures(MaxTraverseNodes, TraverseLeaves)
    /\ flat_ndarray \in BOOLEAN
    /\ flattened = <<>>
    /\ frames = <<Generator(objs)>>
    /\ IdleFilter /\ IdleCollect /\ IdleExtract /\ IdleSet /\ IdleDict
    /\ IdleWalk /\ IdleExt /\ IdleHdf

\* the innermost generator starts: a dict is to give its values view to one
\* generator, another iterable each of its elements to a generator
GeneratorEnter ==
    /\ pc = "running" /\ ~Top.entered
    /\ (HasValues(Top.objs) /\ ~HasNdim(Top.objs)) \/ Descends(Top.objs, flat_ndarray)
    /\ frames' = [frames EXCEPT ![Len(frames)] =
                     [objs |-> Top.objs, entered |-> TRUE,
                      todo |-> IF HasValues(Top.objs) /\ ~HasNdim(Top.objs)
                               THEN <<Values(Top.objs)>>
                               ELSE Iterate(Top.objs)]]
    /\ UNCHANGED <<pc, objs, flat_ndarray, flattened>>
    /\ UNCHANGED <<filterVars, collectVars, extractVars, setVars, dictVars,
                   walkVars, extVars, hdfVars>>

\* the innermost generator starts on a leaf: it yields it, every generator
\* around it yields it in turn, and the innermost generator is over
GeneratorYield ==
    /\ pc = "running" /\ ~Top.entered
    /\ ~(HasValues(Top.objs) /\ ~HasNdim(Top.objs))
    /\ ~Descends(Top.objs, flat_ndarray)
    /\ flattened' = Append(flattened, Top.objs)
    /\ frames' = Finished
    /\ pc' = IF Finished = <<>> THEN "exhausted" ELSE "running"
    /\ UNCHANGED <<objs, flat_ndarray>>
    /\ UNCHANGED <<filterVars, collectVars, extractVars, setVars, dictVars,
                   walkVars, extVars, hdfVars>>

\* the loop of the innermost generator gives its next object to a new
\* generator, which the interpreter refuses beyond its recursion limit
GeneratorCall ==
    /\ pc = "running" /\ Top.entered /\ Top.todo # <<>>
    /\ IF Len(frames) >= RecursionLimit
       THEN pc' = "raised" /\ frames' = frames
       ELSE /\ frames' = Append([frames EXCEPT ![Len(frames)].todo = Tail(@)],
                                Generator(Head(Top.todo)))
            /\ pc' = pc
    /\ UNCHANGED <<objs, flat_ndarray, flattened>>
    /\ UNCHANGED <<filterVars, collectVars, extractVars, setVars, dictVars,
                   walkVars, extVars, hdfVars>>

\* the loop of the innermost generator is over, and the generator with it
GeneratorReturn ==
    /\ pc = "running" /\ Top.entered /\ Top.todo = <<>>
    /\ frames' = Finished
    /\ pc' = IF Finished = <<>> THEN "exhausted" ELSE "running"
    /\ UNCHANGED <<objs, flat_ndarray, flattened>>
    /\ UNCHANGED <<filterVars, collectVars, extractVars, setVars, dictVars,
                   walkVars, extVars, hdfVars>>

NextTraverse ==
    \/ GeneratorEnter
    \/ GeneratorYield
    \/ GeneratorCall
    \/ GeneratorReturn

\* list(iter_flattened(objs, flat_ndarray)) keeps asking for the next leaf
SpecTraverse == InitTraverse /\ [][NextTraverse]_vars /\ WF_vars(NextTraverse)

\* C22: for every structure of lists, dicts, strings, arrays and scalars and
\* either value of flat_ndarray, the generators never loop over a string,
\* whatever its length, never exceed the recursion limit, and the outermost
\* one is eventually exhausted, having yielded the leaves of the structure.
C22_TraversalTerminates ==
    /\ [](/\ pc # "raised"
          /\ \A i \in DOMAIN frames :
                 frames[i].entered => frames[i].objs.tag # "str"
          /\ pc = "exhausted" =>
                 flattened = IterFlattened(objs, flat_ndarray))
    /\ <>(pc = "exhausted")

\* a list holding a dict whose value is the one-character string 'a' is
\* exhausted after yielding 'a' whole
C22_Witness ==
    /\ pc = "exhausted" /\ frames = <<>>
    /\ objs.tag = "list" /\ Len(objs.items) = 1
    /\ objs.items[1].tag = "dict" /\ objs.items[1].vals = <<PyStr(<<"a">>)>>
    /\ flattened = <<PyStr(<<"a">>)>>

-----------------------------------------------------------------------------
(* Claims about the branches of get_all_objs *)

\* C23: for a neo object whose class name is not the class name asked for,
\* the attribute named for the class is tried first and its content is
\* returned, each object once, whatever list_children_by_class would give;
\* without the attribute, list_children_by_class(classname) is returned;
\* without either, a TypeError naming the type of the object is raised.
C23_CapabilitiesInOrder ==
    (/\ pc # "start" /\ HasFileOrigin(container)
     /\ classname # PyNone /\ heap[container.id].cls # classname) =>
        IF HasAttr(heap, container, ClassHolder(classname))
        THEN /\ pc = "returned"
             /\ result.objs =
                    UniqueObjs(heap[container.id].flat[ClassHolder(classname)])
        ELSE IF heap[container.id].has_list
        THEN /\ pc = "returned"
             /\ result.objs =
                    UniqueObjs(ListChildrenByClass(heap, container, classname))
        ELSE /\ pc = "raised"
             /\ result = TypeError(heap[container.id].cls)

\* a Segment has the attribute spiketrains, which lists object 2 twice, and
\* list_children_by_class, which would give object 3 too: object 2 alone is
\* returned
C23_Witness ==
    /\ pc = "returned" /\ container = NeoRef(1) /\ classname = SpikeTrain
    /\ heap[1].cls = Segment
    /\ HasAttr(heap, container, ClassHolder(SpikeTrain)) /\ heap[1].has_list
    /\ ListChildrenByClass(heap, container, SpikeTrain) = <<2, 2, 3>>
    /\ result.objs = <<2>>

\* C24 as stated: the objects a list or dict is decomposed into, each given
\* to get_all_objs with the same class name, are its direct elements or
\* values.
C24_DecomposedOneLevel ==
    (pc # "start" /\ container.tag \in {"list", "dict"}) =>
        Vals(container) =
            (IF container.tag = "dict" THEN container.vals ELSE container.items)

\* C24: a list or dict is decomposed into the leaves of its whole nesting
\* (the values of the dicts, in order), each neo object being a leaf, and
\* each leaf is given to get_all_objs with the same class name: the call
\* raises what the first failing leaf raises, and otherwise returns the
\* objects the leaves give, one after the other, each object once.
C24_DecomposedIntoLeaves ==
    (pc # "start" /\ container.tag \in {"list", "dict"}) =>
        /\ Vals(container) = LeavesOf(container, "leaf")
        /\ LET each == GetAllObjsEach(heap, LeavesOf(container, "leaf"), classname)
           IN IF each.raised
              THEN pc = "raised" /\ result = each
              ELSE pc = "returned" /\ result.objs = UniqueObjs(each.objs)

\* a list holding a list of a Segment: the Segment is the one leaf, met
\* without a call on the inner list, and gives its spiketrains
C24_Witness ==
    /\ pc = "returned" /\ classname = SpikeTrain
    /\ container = PyList(<<PyList(<<NeoRef(1)>>)>>)
    /\ Vals(container) = <<NeoRef(1)>>
    /\ heap[1].cls = Segment
    /\ result.objs = <<2, 3>>

\* C25: a neo object whose class name is exactly the class name asked for
\* is returned alone, without any of the objects it holds, of its class or
\* not; with a class name that differs from its own by capitalization only
\* it is not returned.
C25_ExactClassReturnsItself ==
    (pc # "start" /\ HasFileOrigin(container) /\ classname # PyNone) =>
        /\ heap[container.id].cls = classname =>
               pc = "returned" /\ result.objs = <<container.id>>
        /\ (/\ heap[container.id].cls # classname
            /\ Lower(heap[container.id].cls) = Lower(classname)) =>
               container.id \notin Range(result.objs)

\* an object of class SpikeTrain that holds two SpikeTrains, asked for
\* SpikeTrain, is returned alone
C25_Witness ==
    /\ pc = "returned" /\ container = NeoRef(1) /\ classname = SpikeTrain
    /\ heap = SameClassHeap
    /\ ListChildrenByClass(heap, container, SpikeTrain) = <<2, 3>>
    /\ result.objs = <<1>>

RECURSIVE MetEach(_, _, _)
\* the objects met from the leaves of the container, first leaf first, before
\* any is removed: a neo object gives itself and its recursive listing,
\* itself alone, or its listing for the class name
MetEach(h, leaves, cn) ==
    LET o == Head(leaves)
        met == IF cn = PyNone
               THEN IF h[o.id].has_recur
                    THEN <<o.id>> \o ChildrenRecur(h, o) ELSE <<o.id>>
               ELSE IF h[o.id].cls = cn THEN <<o.id>>
               ELSE IF HasAttr(h, o, ClassHolder(cn))
               THEN h[o.id].flat[ClassHolder(cn)]
               ELSE ListChildrenByClass(h, o, cn)
    IN IF leaves = <<>> THEN <<>> ELSE met \o MetEach(h, Tail(leaves), cn)

\* C26: the list returned holds the objects met in the traversal of the
\* container (per leaf: the object and the objects it lists), each identity
\* once and in the order of the first occurrences; objects of equal content
\* and different identity are all kept.
C26_FirstOccurrencesInOrder ==
    pc = "returned" =>
        LET met == MetEach(heap, LeavesOf(container, "leaf"), classname)
            FirstAt(x, q) ==
                CHOOSE i \in DOMAIN q : q[i] = x /\ \A j \in 1..(i - 1) : q[j] # x
        IN /\ Range(result.objs) = Range(met)
           /\ \A i, j \in DOMAIN result.objs :
                  /\ i # j => result.objs[i] # result.objs[j]
                  /\ i < j => FirstAt(result.objs[i], met) < FirstAt(result.objs[j], met)

\* the SpikeTrain 3, then a Segment that lists the SpikeTrains 2, 2 and 3:
\* object 3 stays first, and objects 2 and 3, equal in content, are both
\* returned
C26_Witness ==
    /\ pc = "returned" /\ classname = SpikeTrain
    /\ container = PyList(<<NeoRef(3), NeoRef(1)>>)
    /\ heap[2] = heap[3]
    /\ MetEach(heap, LeavesOf(container, "leaf"), classname) = <<3, 2, 2, 3>>
    /\ result.objs = <<3, 2>>

-----------------------------------------------------------------------------
(* Further claims about extract_neo_attrs *)

\* C27: after extract_neo_attrs, whatever the flags, the annotations of the
\* object and of every ancestor are what they were before the call, and the
\* dict returned is no object's annotations: after the caller sets a key of
\* it the annotations are still what they were.
C27_InputsNeverMutated ==
    pc \in {"returned", "modified"} =>
        /\ owner = 0
        /\ \A i \in NeoIds : neo[i].annotations = neo0[i].annotations

\* an object extracted with its parent and grandparent, child first: the
\* dict returned is the one the call for the parent returned, changed in
\* place; the caller has set 'new' in it and no object has 'new'
C27_Witness ==
    /\ pc = "modified" /\ xargs.parents /\ xargs.child_first
    /\ neo[1].parents = <<2>> /\ neo[2].parents = <<3>>
    /\ "new" \in DOMAIN attrs
    /\ "rate" \in DOMAIN attrs /\ "rate" \notin DOMAIN neo0[1].annotations
    /\ \A i \in NeoIds : "new" \notin DOMAIN neo[i].annotations

\* C29: for an object with one parent, which has one parent, which has
\* none, extraction with the parents returns, for a key the three hold with
\* three different values, the object's value when child_first is true and
\* the grandparent's when it is false; a key the grandparent alone holds is
\* returned with the grandparent's value in both cases.
C29_ChainPrecedence ==
    (pc = "returned" /\ xargs.parents) =>
        \A p, g \in NeoIds :
            (/\ ParentsOf(xargs.obj) = <<p>>
             /\ ParentsOf(p) = <<g>> /\ ParentsOf(g) = <<>>) =>
                LET o == xargs.obj
                    Has(x, k) == k \in DOMAIN OwnMap(x)
                IN \A k \in DOMAIN OwnMap(g) :
                       /\ (/\ Has(o, k) /\ Has(p, k)
                           /\ Cardinality({OwnMap(o)[k], OwnMap(p)[k],
                                           OwnMap(g)[k]}) = 3) =>
                              attrs[k] = IF xargs.child_first
                                         THEN OwnMap(o)[k] ELSE OwnMap(g)[k]
                       /\ (~Has(o, k) /\ ~Has(p, k)) =>
                              k \in DOMAIN attrs /\ attrs[k] = OwnMap(g)[k]

\* a chain of three objects that annotate 'k' with 1, 2 and 3, the
\* grandparent alone having 'rate': child first, 'k' is 1 and 'rate' is 3
C29_Witness ==
    /\ pc = "returned" /\ xargs.parents /\ xargs.child_first
    /\ neo[1].parents = <<2>> /\ neo[2].parents = <<3>>
    /\ neo[1].annotations["k"] = PyInt(1)
    /\ neo[2].annotations["k"] = PyInt(2)
    /\ neo[3].annotations["k"] = PyInt(3)
    /\ "rate" \notin DOMAIN OwnMap(1) /\ "rate" \notin DOMAIN OwnMap(2)
    /\ "rate" \in DOMAIN OwnMap(3)
    /\ attrs["k"] = PyInt(1) /\ attrs["rate"] = PyInt(3)

\* C30: extracted with its one parent and child_first true, a key the
\* object holds with None and the parent with another value is returned as
\* None when skip_none is false and with the parent's value when skip_none
\* is true.
C30_NoneShadowsUnlessSkipped ==
    (pc = "returned" /\ xargs.parents /\ xargs.child_first) =>
        \A p \in NeoIds :
            ParentsOf(xargs.obj) = <<p>> =>
                LET child == OwnAttrs(neo[xargs.obj], xargs.skip_array)
                    parent == OwnAttrs(neo[p], xargs.skip_array)
                IN \A k \in DOMAIN child \cap DOMAIN parent :
                       (child[k] = PyNone /\ parent[k] # PyNone) =>
                           attrs[k] = IF xargs.skip_none THEN parent[k] ELSE PyNone

\* an object that annotates 'k' with None under a parent that annotates it
\* with 2, extracted with skip_none: 'k' is 2
C30_Witness ==
    /\ pc = "returned" /\ xargs.parents /\ xargs.child_first /\ xargs.skip_none
    /\ neo[1].parents = <<2>>
    /\ neo[1].annotations["k"] = PyNone
    /\ neo[2].annotations["k"] = PyInt(2)
    /\ attrs["k"] = PyInt(2)

-----------------------------------------------------------------------------
(* neo_file_tools.neo_objects_to_hdf5 and neo_tools.neo_objects_to_hdf5 *)

\* the objects given to one call
MaxNeoObjs == 3

\* what iter_flattened(neoobjs) gives at one place:
\* "neo": a neo object read from './a' or from no file (file_origin None),
\*     with or without the attribute hdf5_path ('/b');
\* "plain": an object without file_origin (computing its path raises);
\* "unsavable": a neo object that ioobj.save refuses;
\* "broken": no object, the iteration raises there
HdfItems ==
    {[kind |-> "neo", file_origin |-> PyNone, hdf5_path |-> PyNone],
     [kind |-> "neo", file_origin |-> PyStr(<<".", "/", "a">>),
      hdf5_path |-> PyStr(<<"/", "b">>)],
     [kind |-> "plain", file_origin |-> PyNone, hdf5_path |-> PyNone],
     [kind |-> "unsavable", file_origin |-> PyNone, hdf5_path |-> PyNone],
     [kind |-> "broken", file_origin |-> PyNone, hdf5_path |-> PyNone]}

\* a variant that leaves the file open
Close_noop(io) == io

\* ioobj.close()
Close(io) == [io EXCEPT !.closes = @ + 1]

\* lines 231-239: where the object is saved in the file
HdfPath(obj, flat, with_current) ==
    LET LStrip(cs, c) ==
            SubSeq(cs, Cardinality({i \in DOMAIN cs :
                                      \A j \in 1..i : cs[j] = c}) + 1, Len(cs))
        path == IF flat \/ obj.file_origin = PyNone THEN <<"/">>
                ELSE <<"/">> \o LStrip(LStrip(obj.file_origin.chars, "."), "/")
    IN PyStr(path \o (IF with_current /\ obj.hdf5_path # PyNone
                      THEN obj.hdf5_path.chars ELSE <<>>))

\* the exception a place of the iteration ends in, or None: raised by the
\* iteration, by obj.file_origin, by os.sep in a module without os (line 502
\* of neo_tools) or by ioobj.save, whichever comes first
Raises(item, a) ==
    IF item.kind = "broken" THEN PyStr(<<"RuntimeError">>)
    ELSE IF item.kind = "plain" THEN PyStr(<<"AttributeError">>)
    ELSE IF ~a.flat /\ item.file_origin # PyNone /\ ~HasOs(a.module)
    THEN PyStr(<<"NameError">>)
    ELSE IF item.kind = "unsavable" THEN PyStr(<<"IOError">>)
    ELSE PyNone

\* after line 227: the file is open, nothing is saved
InitHdf ==
    /\ pc = "for"
    /\ neoobjs \in SeqsUpTo(HdfItems, MaxNeoObjs)
    /\ hargs \in [flat : BOOLEAN, with_current : BOOLEAN,
                  module : {"neo_file_tools", "neo_tools"}]
    /\ ioobj = [closes |-> 0, saved |-> <<>>]
    /\ hidx = 0
    /\ hexc = PyNone
    /\ IdleFlatten /\ IdleFilter /\ IdleCollect /\ IdleExtract
    /\ IdleSet /\ IdleDict /\ IdleWalk /\ IdleExt /\ IdleTraverse

\* line 230: the loop asks for the next object, which may raise
HdfFor ==
    /\ pc = "for" /\ hidx < Len(neoobjs)
    /\ hidx' = hidx + 1
    /\ IF neoobjs[hidx + 1].kind = "broken"
       THEN pc' = "except" /\ hexc' = [at |-> hidx + 1,
                                       exc |-> Raises(neoobjs[hidx + 1], hargs)]
       ELSE pc' = "body" /\ hexc' = hexc
    /\ UNCHANGED <<neoobjs, hargs, ioobj>>
    /\ UNCHANGED <<flattenVars, filterVars, collectVars, extractVars, setVars,
                   dictVars, walkVars, extVars, traverseVars>>

\* lines 231-241: the path of the object is computed and the object saved
\* there, unless one or the other raises
HdfSave ==
    /\ pc = "body"
    /\ IF Raises(neoobjs[hidx], hargs) # PyNone
       THEN /\ pc' = "except"
            /\ hexc' = [at |-> hidx, exc |-> Raises(neoobjs[hidx], hargs)]
            /\ ioobj' = ioobj
       ELSE /\ pc' = "for"
            /\ hexc' = hexc
            /\ ioobj' = [ioobj EXCEPT !.saved =
                            Append(@, [obj |-> hidx,
                                       where |-> HdfPath(neoobjs[hidx], hargs.flat,
                                                         hargs.with_current),
                                       closed |-> ioobj.closes > 0])]
    /\ UNCHANGED <<neoobjs, hargs, hidx>>
    /\ UNCHANGED <<flattenVars, filterVars, collectVars, extractVars, setVars,
                   dictVars, walkVars, extVars, traverseVars>>

\* lines 242-244: the file is closed and the exception raised again
HdfExcept ==
    /\ pc = "except"
    /\ ioobj' = Close(ioobj)
    /\ pc' = "raised"
    /\ UNCHANGED <<neoobjs, hargs, hidx, hexc>>
    /\ UNCHANGED <<flattenVars, filterVars, collectVars, extractVars, setVars,
                   dictVars, walkVars, extVars, traverseVars>>

\* line 246: the loop is over, the file is closed
HdfClose ==
    /\ pc = "for" /\ hidx = Len(neoobjs)
    /\ ioobj' = Close(ioobj)
    /\ pc' = "returned"
    /\ UNCHANGED <<neoobjs, hargs, hidx, hexc>>
    /\ UNCHANGED <<flattenVars, filterVars, collectVars, extractVars, setVars,
                   dictVars, walkVars, extVars, traverseVars>>

NextHdf == HdfFor \/ HdfSave \/ HdfExcept \/ HdfClose

SpecHdf == InitHdf /\ [][NextHdf]_vars

\* C28: the file is closed once on every path and not before the end: when
\* every object is saved the call returns with all of them saved and the
\* file closed once after the last save; when obtaining an object, computing
\* its path or saving it raises, the objects before it are saved and no
\* other, the file is closed once and that exception is the one raised.
C28_ClosedOnceOnEveryPath ==
    LET failing == {i \in DOMAIN neoobjs : Raises(neoobjs[i], hargs) # PyNone}
        first == CHOOSE i \in failing : \A j \in failing : i <= j
    IN /\ ioobj.closes = IF pc \in {"returned", "raised"} THEN 1 ELSE 0
       /\ \A i \in DOMAIN ioobj.saved : ~ioobj.saved[i].closed
       /\ pc = "returned" =>
              /\ failing = {}
              /\ [i \in DOMAIN ioobj.saved |-> ioobj.saved[i].obj]
                     = [i \in DOMAIN neoobjs |-> i]
       /\ pc = "raised" =>
              /\ failing # {}
              /\ [i \in DOMAIN ioobj.saved |-> ioobj.saved[i].obj]
                     = [i \in 1..(first - 1) |-> i]
              /\ hexc = [at |-> first, exc |-> Raises(neoobjs[first], hargs)]

\* three objects given to the function of neo_file_tools, the second of
\* which cannot be saved: the first is saved under '/a/b', the file is
\* closed once and IOError is raised
C28_Witness ==
    /\ pc = "raised" /\ Len(neoobjs) = 3 /\ hargs.module = "neo_file_tools"
    /\ neoobjs[2].kind = "unsavable" /\ neoobjs[3].kind = "neo"
    /\ ~hargs.flat /\ hargs.with_current
    /\ Len(ioobj.saved) = 1
    /\ ioobj.saved[1].where = PyStr(<<"/", "a", "/", "b">>)
    /\ ioobj.closes = 1
    /\ hexc.exc = PyStr(<<"IOError">>)

====
